---------------------------- MODULE Spec2Model ----------------------------
(***************************************************************************)
(* Model of the speech-pathology resource server (server/src/index.ts):    *)
(* the retrieval core (tokenize, stem, deriveLetterTags, scoreResources),  *)
(* the note parser of buildResourceNotes and the POST /api/chat handler.   *)
(*                                                                         *)
(* A JavaScript string is modelled as a sequence of one-character strings, *)
(* so that "cats" is <<"c","a","t","s">> and "" is <<>>.  An optional      *)
(* field (extractedText?: string) is a sequence of zero or one strings:    *)
(* <<>> when the field is absent and <<s>> when it holds s.                *)
(***************************************************************************)
EXTENDS Integers, Sequences, FiniteSets, TLC

VARIABLES
  argQuery,   \* scoring: the query string of the calls under study
  argList,    \* scoring: the resource array passed to scoreResources
  phase,      \* scoring: which calls have been made on argList so far
  lastScored, \* scoring: the mapped {resource, score} array of the last call
  shortlist   \* scoring: the array the last call returned

scoreVars == <<argQuery, argList, phase, lastScored, shortlist>>

VARIABLES
  noteResources, \* notes: the shortlist passed to buildResourceNotes
  notePc,        \* notes: where the call stands
  genOutput,     \* notes: the content of the completion, when it resolved
  notes,         \* notes: the array the call returned
  genCalls       \* notes: generator requests issued by the call

noteVars == <<noteResources, notePc, genOutput, notes, genCalls>>

VARIABLES
  apiKey,      \* chat: whether process.env.OPENAI_API_KEY is set
  collection,  \* chat: the documents of the resources collection, in store order
  chatPc,      \* chat: where the POST /api/chat handler stands
  chatReq,     \* chat: the authenticated user and the body of the request
  topMatches,  \* chat: the handler's shortlist (line 594)
  aiMessage,   \* chat: the handler's reply text (line 627)
  genLog,      \* chat: the generator requests of the handler, with their outcome
  response     \* chat: the response sent, when one was sent

chatVars ==
  <<apiKey, collection, chatPc, chatReq, topMatches, aiMessage, genLog, response>>

VARIABLES
  patients,  \* server: the documents of the patients collection, in store order
  bucket,    \* server: the files of the uploads bucket
  created,   \* server: how many resources, patients and files were inserted
  dbUp,      \* server: whether the storage answers (getDb resolves)
  srvReq,    \* server: the last request received under /api
  srvRes,    \* server: the response it got
  srvOps     \* server: the storage, scoring and generator calls made for it

serverVars == <<patients, bucket, created, dbUp, srvReq, srvRes, srvOps>>

VARIABLES
  textFn,  \* text: the function applied (tokenize, stem, deriveLetterTags)
  textIn,  \* text: its argument
  textOut  \* text: what it returned

textVars == <<textFn, textIn, textOut>>

VARIABLES
  library,      \* client: the ids of the resources the library shows, in order
  remote,       \* client: the ids of the resources the server stores
  timer,        \* client: per resource, the 3.5 s timer of handleDelete
  deleteTimers, \* client: per resource, whether deleteTimers.current holds an entry
  request,      \* client: per resource, the DELETE request of the timer callback
  toast         \* client: per resource, the toast that carries the Undo button

clientVars == <<library, remote, timer, deleteTimers, request, toast>>

VARIABLES
  mongoUri,      \* db: whether process.env.MONGODB_URI is set
  client,        \* db: the module variable client (db.ts line 7)
  db,            \* db: the module variable db (line 8)
  uploadsBucket, \* db: the module variable bucket (line 9)
  clientState,   \* db: each MongoClient constructed so far, and where it stands
  callPc,        \* db: per caller of getDb, where the call stands
  callClient,    \* db: per caller, the client whose connect() it awaits
  callResult,    \* db: per caller, the Db handle the call returned
  closePc,       \* db: where the call of closeDb stands
  closeClient    \* db: the client whose close() closeDb awaits

dbVars ==
  <<mongoUri, client, db, uploadsBucket, clientState, callPc, callClient,
    callResult, closePc, closeClient>>

vars == <<scoreVars, noteVars, chatVars, serverVars, textVars, clientVars, dbVars>>

----------------------------------------------------------------------------
(* Characters and the String.prototype methods the server uses.            *)

LowerLetters == <<"a","b","c","d","e","f","g","h","i","j","k","l","m",
                  "n","o","p","q","r","s","t","u","v","w","x","y","z">>

UpperLetters == <<"A","B","C","D","E","F","G","H","I","J","K","L","M",
                  "N","O","P","Q","R","S","T","U","V","W","X","Y","Z">>

Digits == {"0","1","2","3","4","5","6","7","8","9"}

DigitSeq == <<"0","1","2","3","4","5","6","7","8","9">>

Range(s) == {s[i] : i \in DOMAIN s}

LowerSet == Range(LowerLetters)

UpperSet == Range(UpperLetters)

\* /\s/ restricted to the characters of the model's alphabet.
Whitespace == {" ", "\t", "\r"}

toLowerChar(c) ==
  IF c \in UpperSet
    THEN LowerLetters[CHOOSE i \in DOMAIN UpperLetters : UpperLetters[i] = c]
    ELSE c

toLowerCase(s) == [i \in DOMAIN s |-> toLowerChar(s[i])]

\* The class [a-z0-9] of the tokenizer's separator pattern /[^a-z0-9]+/.
IsTokenChar(c) == c \in LowerSet \/ c \in Digits

\* String.prototype.includes: needle occurs at some offset of hay.
includes(hay, needle) ==
  \E k \in 0..(Len(hay) - Len(needle)) :
     \A i \in 1..Len(needle) : hay[k + i] = needle[i]

endsWith(s, suffix) ==
  /\ Len(suffix) <= Len(s)
  /\ \A i \in 1..Len(suffix) : s[Len(s) - Len(suffix) + i] = suffix[i]

\* s.slice(0, -n)
sliceEnd(s, n) == SubSeq(s, 1, Len(s) - n)

RECURSIVE join(_, _)
join(parts, sep) ==
  IF parts = <<>> THEN <<>>
  ELSE IF Len(parts) = 1 THEN parts[1]
  ELSE parts[1] \o sep \o join(Tail(parts), sep)

\* Fault: the empty pieces of the split are kept.
filterNonEmpty_keepAll(parts) == parts

RECURSIVE filterNonEmpty(_)
\* .filter(Boolean) on an array of strings: drops the empty strings.
filterNonEmpty(parts) ==
  IF parts = <<>> THEN <<>>
  ELSE IF parts[1] = <<>> THEN filterNonEmpty(Tail(parts))
  ELSE <<parts[1]>> \o filterNonEmpty(Tail(parts))

RECURSIVE splitRuns(_, _, _, _)
\* input.split(/[^a-z0-9]+/) scanned left to right: cur is the piece being
\* read, inSep tells that the previous character belonged to a separator run.
splitRuns(s, i, cur, inSep) ==
  IF i > Len(s) THEN <<cur>>
  ELSE IF IsTokenChar(s[i]) THEN splitRuns(s, i + 1, Append(cur, s[i]), FALSE)
  ELSE IF inSep THEN splitRuns(s, i + 1, cur, TRUE)
  ELSE <<cur>> \o splitRuns(s, i + 1, <<>>, TRUE)

tokenize(input) == filterNonEmpty(splitRuns(toLowerCase(input), 1, <<>>, FALSE))

\* Fault: the "es" rule tried before the "ies" rule.
stem_esFirst(token) ==
  IF Len(token) <= 3 THEN token
  ELSE IF endsWith(token, <<"e","s">>) THEN sliceEnd(token, 2)
  ELSE IF endsWith(token, <<"i","e","s">>) THEN sliceEnd(token, 3) \o <<"y">>
  ELSE IF endsWith(token, <<"s">>) THEN sliceEnd(token, 1)
  ELSE token

stem(token) ==
  IF Len(token) <= 3 THEN token
  ELSE IF endsWith(token, <<"i","e","s">>) THEN sliceEnd(token, 3) \o <<"y">>
  ELSE IF endsWith(token, <<"e","s">>) THEN sliceEnd(token, 2)
  ELSE IF endsWith(token, <<"s">>) THEN sliceEnd(token, 1)
  ELSE token

RECURSIVE matchLetters(_, _)
\* text.match(/[a-z]/gi) || []
matchLetters(text, i) ==
  IF i > Len(text) THEN <<>>
  ELSE IF text[i] \in LowerSet \/ text[i] \in UpperSet
    THEN <<text[i]>> \o matchLetters(text, i + 1)
  ELSE matchLetters(text, i + 1)

\* Fault: every occurrence kept.
uniqueInOrder_keepAll(xs, seen) == xs

RECURSIVE uniqueInOrder(_, _)
\* Array.from(new Set(xs)): first occurrences, in insertion order.
uniqueInOrder(xs, seen) ==
  IF xs = <<>> THEN <<>>
  ELSE IF xs[1] \in seen THEN uniqueInOrder(Tail(xs), seen)
  ELSE <<xs[1]>> \o uniqueInOrder(Tail(xs), seen \cup {xs[1]})

RECURSIVE flatMapLetterTags(_)
flatMapLetterTags(ls) ==
  IF ls = <<>> THEN <<>>
  ELSE << <<ls[1]>>,
          <<"/", ls[1], "/">>,
          <<"l","e","t","t","e","r","-", ls[1]>> >>
       \o flatMapLetterTags(Tail(ls))

deriveLetterTags(text) ==
  flatMapLetterTags(uniqueInOrder(toLowerCase(matchLetters(text, 1)), {}))

----------------------------------------------------------------------------
(* scoreResources (index.ts 141-169).                                       *)

\* The literals of lines 153, 154, 158, 161 and 168.
ExactWeight == 2

StemWeight == 1

TagWeight == 1

PhraseWeight == 1

TopK == 5

Space == <<" ">>

\* resource.extractedText ?? ""
orEmpty(opt) == IF opt = <<>> THEN <<>> ELSE opt[1]

\* Fault: the stored tags placed before the description.
corpusOf_tagsFirst(resource) ==
  resource.title \o Space \o join(resource.tags, Space) \o Space
    \o resource.description \o Space
    \o join(deriveLetterTags(resource.title), Space) \o Space
    \o orEmpty(resource.extractedText)

\* The template literal of line 148.
corpusOf(resource) ==
  resource.title \o Space \o resource.description \o Space
    \o join(resource.tags, Space) \o Space
    \o join(deriveLetterTags(resource.title), Space) \o Space
    \o orEmpty(resource.extractedText)

RECURSIVE reduceHits(_, _)
\* xs.reduce((acc, x) => (hit(x) ? acc + w : acc), 0) over the hit flags.
reduceHits(hits, w) ==
  IF hits = <<>> THEN 0
  ELSE (IF hits[1] THEN w ELSE 0) + reduceHits(Tail(hits), w)

\* Fault: the exact-overlap signal weighted like the stemmed one.
overlap_weightOne(qTokens, tokenSet) ==
  reduceHits([i \in DOMAIN qTokens |-> qTokens[i] \in tokenSet], StemWeight)

overlap(qTokens, tokenSet) ==
  reduceHits([i \in DOMAIN qTokens |-> qTokens[i] \in tokenSet], ExactWeight)

\* Fault: the raw query token looked up in the stem set.
stemOverlap_rawToken(qTokens, stemSet) ==
  reduceHits([i \in DOMAIN qTokens |-> qTokens[i] \in stemSet], StemWeight)

stemOverlap(qTokens, stemSet) ==
  reduceHits([i \in DOMAIN qTokens |-> stem(qTokens[i]) \in stemSet], StemWeight)

\* (resource.tags || []).some((t) => t.toLowerCase().includes(tok))
tagHit(tags, tok) == \E j \in DOMAIN tags : includes(toLowerCase(tags[j]), tok)

\* Fault: the tag bonus counted once per matching tag.
substrBonus_perTag(qTokens, tags) ==
  TagWeight * Cardinality({p \in (DOMAIN qTokens) \X (DOMAIN tags) :
                              includes(toLowerCase(tags[p[2]]), qTokens[p[1]])})

substrBonus(qTokens, tags) ==
  reduceHits([i \in DOMAIN qTokens |-> tagHit(tags, qTokens[i])], TagWeight)

includesFull(query, corpus) ==
  IF includes(toLowerCase(corpus), toLowerCase(query)) THEN PhraseWeight ELSE 0

scoreOf(query, qTokens, resource) ==
  LET corpus   == corpusOf(resource)
      rTokens  == tokenize(corpus)
      tokenSet == Range(rTokens)
      stemSet  == {stem(rTokens[i]) : i \in DOMAIN rTokens}
  IN  overlap(qTokens, tokenSet) + stemOverlap(qTokens, stemSet)
        + substrBonus(qTokens, resource.tags) + includesFull(query, corpus)

\* list.map((resource) => ({ resource, score }))
mapScore(query, qTokens, list) ==
  [i \in DOMAIN list |->
     [resource |-> list[i], score |-> scoreOf(query, qTokens, list[i])]]

\* Fault: the filter of line 165 left out.
filterPositive_keepAll(items) == items

RECURSIVE filterPositive(_)
\* .filter((item) => item.score > 0)
filterPositive(items) ==
  IF items = <<>> THEN <<>>
  ELSE IF items[1].score > 0 THEN <<items[1]>> \o filterPositive(Tail(items))
  ELSE filterPositive(Tail(items))

\* The comparator (a, b) => b.score - a.score.
compareScore(a, b) == b.score - a.score

RECURSIVE insertSorted_unstable(_, _)
\* Fault: a sort that puts an element before the elements equal to it.
insertSorted_unstable(sorted, x) ==
  IF sorted = <<>> THEN <<x>>
  ELSE IF compareScore(sorted[1], x) < 0
    THEN <<sorted[1]>> \o insertSorted_unstable(Tail(sorted), x)
  ELSE <<x>> \o sorted

RECURSIVE insertSorted(_, _)
\* Places x after every element it does not precede: Array.prototype.sort is
\* stable, so x stays behind the elements that compare equal to it.
insertSorted(sorted, x) ==
  IF sorted = <<>> THEN <<x>>
  ELSE IF compareScore(sorted[1], x) <= 0
    THEN <<sorted[1]>> \o insertSorted(Tail(sorted), x)
  ELSE <<x>> \o sorted

RECURSIVE sortByScore(_)
\* .sort((a, b) => b.score - a.score)
sortByScore(items) ==
  IF items = <<>> THEN <<>>
  ELSE insertSorted(sortByScore(SubSeq(items, 1, Len(items) - 1)),
                    items[Len(items)])

\* Fault: slice(0, n) that keeps one element more.
sliceFront_oneMore(xs, n) == SubSeq(xs, 1, IF Len(xs) < n + 1 THEN Len(xs) ELSE n + 1)

\* .slice(0, n)
sliceFront(xs, n) == SubSeq(xs, 1, IF Len(xs) < n THEN Len(xs) ELSE n)

rankItems(items) ==
  LET scored == sortByScore(filterPositive(items))
  IN  sliceFront([i \in DOMAIN scored |-> scored[i].resource], TopK)

\* Fault: scoreResources without the early return of line 143.
scoreResourcesRun_noEarlyReturn(query, list) ==
  LET scored == mapScore(query, tokenize(query), list)
  IN  [scored |-> scored, result |-> rankItems(scored)]

\* One call, with the array the map of line 146 produced kept beside the
\* result (empty when line 143 returns before the map runs).
scoreResourcesRun(query, list) ==
  LET qTokens == tokenize(query)
  IN  IF Len(qTokens) = 0 THEN [scored |-> <<>>, result |-> <<>>]
      ELSE LET scored == mapScore(query, qTokens, list)
           IN  [scored |-> scored, result |-> rankItems(scored)]

scoreResources(query, list) == scoreResourcesRun(query, list).result

\* Fault: the sort of line 166 run on the caller's array itself.
inputAfterCall_sortedInPlace(query, list) ==
  LET sorted == sortByScore(mapScore(query, tokenize(query), list))
  IN  [i \in DOMAIN sorted |-> sorted[i].resource]

\* The caller's array after a call: map and filter build new arrays and sort
\* runs on the filtered copy, so the argument keeps its elements and order.
inputAfterCall(query, list) == list

----------------------------------------------------------------------------
(* buildResourceNotes (index.ts 223-261): the parsing of the completion.    *)

RECURSIVE splitOn(_, _, _, _)
\* text.split(sep) for a one-character separator: every separator ends a
\* piece, empty pieces included.
splitOn(text, sep, i, cur) ==
  IF i > Len(text) THEN <<cur>>
  ELSE IF text[i] = sep THEN <<cur>> \o splitOn(text, sep, i + 1, <<>>)
  ELSE splitOn(text, sep, i + 1, Append(cur, text[i]))

RECURSIVE skipWhile(_, _, _)
\* The first position from i on whose character is not in class.
skipWhile(l, i, class) ==
  IF i <= Len(l) /\ l[i] \in class THEN skipWhile(l, i + 1, class) ELSE i

\* l.replace(/^\s*\d+\)\s*/, "")
stripNumbering(l) ==
  LET d == skipWhile(l, 1, Whitespace)
      p == skipWhile(l, d, Digits)
  IN  IF p > d /\ p <= Len(l) /\ l[p] = ")"
        THEN SubSeq(l, skipWhile(l, p + 1, Whitespace), Len(l))
        ELSE l

RECURSIVE trimEnd(_)
trimEnd(l) ==
  IF l # <<>> /\ l[Len(l)] \in Whitespace THEN trimEnd(SubSeq(l, 1, Len(l) - 1)) ELSE l

\* String.prototype.trim
trim(l) == trimEnd(SubSeq(l, skipWhile(l, 1, Whitespace), Len(l)))

\* Fault: the blank lines kept (no .filter(Boolean) on line 258).
noteLines_keepBlank(text) ==
  LET raw == splitOn(text, "\n", 1, <<>>)
  IN  [k \in DOMAIN raw |-> trim(stripNumbering(raw[k]))]

\* Lines 255-258.
noteLines(text) ==
  LET raw == splitOn(text, "\n", 1, <<>>)
  IN  filterNonEmpty([k \in DOMAIN raw |-> trim(stripNumbering(raw[k]))])

\* Lines 254-260: content is completion.choices[0]?.message?.content.
parseNotes(resources, content) ==
  LET lines == noteLines(orEmpty(content))
  IN  [idx \in DOMAIN resources |-> IF idx <= Len(lines) THEN lines[idx] ELSE <<>>]

----------------------------------------------------------------------------
(* POST /api/chat (index.ts 575-652).                                       *)

\* .limit(200) of line 591.
FindLimit == 200

\* A stored document of the resources collection.
StoredDoc(id, c, owner, insight) ==
  [id |-> id, title |-> c.title, description |-> c.description,
   tags |-> c.tags, extractedText |-> c.extractedText, insight |-> insight,
   ownerId |-> owner]

RECURSIVE filterOwner(_, _)
filterOwner(docs, owner) ==
  IF docs = <<>> THEN <<>>
  ELSE IF docs[1].ownerId = owner
    THEN <<docs[1]>> \o filterOwner(Tail(docs), owner)
  ELSE filterOwner(Tail(docs), owner)

\* col.find({ ownerId }).limit(200).toArray(), then docs.map(toResource):
\* the caller's documents in store order, at most 200 of them.
findResources(docs, owner) == sliceFront(filterOwner(docs, owner), FindLimit)

\* A response: the status and the fields of the JSON body ("" and <<>> for
\* the fields the body does not carry; fallback is <<>> or one reply/resources
\* pair).
Response(status, error, reply, resources, fallback) ==
  [status |-> status, error |-> error, reply |-> reply,
   resources |-> resources, fallback |-> fallback]

NoResponse == Response(0, "", "", <<>>, <<>>)

\* Lines 578-580 and 582-586.
MessageRequired == Response(400, "Message is required.", "", <<>>, <<>>)

KeyMissing ==
  Response(500, "OPENAI_API_KEY missing. Add it to your environment variables.",
           "", <<>>, <<>>)

\* Lines 641-651: the handler's outer catch.
Unavailable ==
  Response(502, "Assistant temporarily unavailable.", "", <<>>,
           << [reply |-> "Assistant unavailable. Please try again later.",
               resources |-> <<>>] >>)

\* Lines 637-640.
ChatOk(reply, resources) == Response(200, "", reply, resources, <<>>)

\* completion.choices[0]?.message?.content ?? "I'm sorry, ..." (line 627)
replyText(content) ==
  IF content = <<>> THEN "I'm sorry, I couldn't generate a response." ELSE content[1]

\* topMatches.map((r, idx) => ({ ...r, insight: notes[idx] })) (line 632)
withInsight(resources, ns) ==
  [idx \in DOMAIN resources |->
     [resources[idx] EXCEPT !.insight =
        IF idx <= Len(ns) THEN <<ns[idx]>> ELSE <<>>]]

\* Fault: no try/catch around the note generation, so that its failure
\* reaches the handler's outer catch.
responseAfterNoteFailure_uncaught(reply, resources) == Unavailable

\* Lines 629-640 when buildResourceNotes throws: the catch logs, and
\* notedResources is still topMatches.
responseAfterNoteFailure(reply, resources) == ChatOk(reply, resources)

\* Lines 629-640 when buildResourceNotes returns ns.
responseAfterNotes(reply, resources, ns) == ChatOk(reply, withInsight(resources, ns))

----------------------------------------------------------------------------
(* verifyAuth (index.ts 90-104) and the users of loadUsers (27-72).         *)

\* The users loadUsers returns when the environment configures none
\* (lines 66-69).
USERS ==
  << [username |-> <<"t","h","e","r","a","p","i","s","t">>,
      password |-> <<"s","p","e","e","c","h","1","2","3">>,
      email |-> "therapist@example.com"],
     [username |-> <<"a","s","s","i","s","t","a","n","t">>,
      password |-> <<"h","e","l","p","e","r","1","2","3">>,
      email |-> "assistant@example.com"] >>

startsWith(s, prefix) ==
  /\ Len(prefix) <= Len(s)
  /\ \A i \in 1..Len(prefix) : s[i] = prefix[i]

\* s.replace(pattern, "") for a string pattern: the first occurrence goes.
removeFirst(s, pattern) ==
  IF ~includes(s, pattern) THEN s
  ELSE LET k == CHOOSE j \in 0..(Len(s) - Len(pattern)) :
                  /\ \A i \in 1..Len(pattern) : s[j + i] = pattern[i]
                  /\ \A h \in 0..(j - 1) :
                        \E i \in 1..Len(pattern) : s[h + i] # pattern[i]
       IN  SubSeq(s, 1, k) \o SubSeq(s, k + Len(pattern) + 1, Len(s))

Base64Alphabet ==
  UpperLetters \o LowerLetters \o DigitSeq \o <<"+", "/">>

sextetOf(c) == (CHOOSE i \in DOMAIN Base64Alphabet : Base64Alphabet[i] = c) - 1

RECURSIVE sextets(_, _)
\* The 6-bit values of the characters of token from position i on, up to the
\* padding (or any other character outside the alphabet).
sextets(token, i) ==
  IF i > Len(token) \/ token[i] \notin Range(Base64Alphabet) THEN <<>>
  ELSE <<sextetOf(token[i])>> \o sextets(token, i + 1)

\* Byte k (from 0) of the bit string the 6-bit values v spell.
byteAt(v, k) ==
  LET i == ((8 * k) \div 6) + 1
      o == (8 * k) % 6
  IN  IF o = 0 THEN v[i] * 4 + (v[i + 1] \div 16)
      ELSE IF o = 2 THEN (v[i] % 16) * 16 + (v[i + 1] \div 4)
      ELSE (v[i] % 4) * 64 + v[i + 1]

\* The character of a byte, for the bytes of letters, digits, the space and
\* the colon; "?" stands for every other byte.
fromCharCode(b) ==
  IF b >= 48 /\ b <= 57 THEN DigitSeq[b - 47]
  ELSE IF b >= 65 /\ b <= 90 THEN UpperLetters[b - 64]
  ELSE IF b >= 97 /\ b <= 122 THEN LowerLetters[b - 96]
  ELSE IF b = 58 THEN ":"
  ELSE IF b = 32 THEN " "
  ELSE "?"

\* Buffer.from(token, "base64").toString("utf8")
base64Decode(token) ==
  LET v == sextets(token, 1)
  IN  [k \in 1..((6 * Len(v)) \div 8) |-> fromCharCode(byteAt(v, k - 1))]

\* The outcome of the middleware: the 401 it answers, or the user it puts on
\* the request before calling next().
AuthDenied(error) == [status |-> 401, error |-> error, user |-> <<>>]

AuthPassed(u) ==
  [status |-> 0, error |-> "",
   user |-> << [sub |-> u.username, email |-> u.email, name |-> u.username] >>]

\* The predicate of USERS.find (line 98); password is <<>> when the decoded
\* text holds no colon (undefined), else one string.
credentialsMatch(u, username, password) ==
  /\ u.username = username
  /\ password # <<>>
  /\ u.password = password[1]

\* header is <<>> when the request carries no Authorization header.
verifyAuth(header) ==
  IF header = <<>> \/ ~startsWith(header[1], <<"B","a","s","i","c"," ">>)
    THEN AuthDenied("Missing auth")
  ELSE LET token    == trim(removeFirst(header[1], <<"B","a","s","i","c"," ">>))
           decoded  == base64Decode(token)
           parts    == splitOn(decoded, ":", 1, <<>>)
           username == parts[1]
           password == IF Len(parts) >= 2 THEN <<parts[2]>> ELSE <<>>
           found    == {i \in DOMAIN USERS : credentialsMatch(USERS[i], username, password)}
       IN  IF found = {} THEN AuthDenied("Invalid credentials")
           ELSE AuthPassed(USERS[CHOOSE i \in found : \A j \in found : i <= j])

----------------------------------------------------------------------------
(* The stores and the routes under /api (index.ts 270-572).  A collection   *)
(* is the sequence of its documents in insertion order; the uploads bucket  *)
(* is the set of its files.  Of a document the model keeps the fields a     *)
(* handler reads or computes and leaves out the ones it only copies (url,   *)
(* ageRange, type, uploadedBy, ownerEmail, notes).                          *)

HexChars == Digits \cup {"a","b","c","d","e","f","A","B","C","D","E","F"}

\* Fault: every identifier taken as well formed.
isValid_always(id) == TRUE

\* ObjectId.isValid for a string: 24 hexadecimal characters.
isValid(id) == Len(id) = 24 /\ \A i \in DOMAIN id : id[i] \in HexChars

\* insertedId.toString(): the n-th identifier the driver generates for a
\* collection; kind is "a" for resources, "b" for patients, "c" for files.
objectId(kind, n) ==
  [i \in 1..24 |-> IF i = 1 THEN kind ELSE IF i = 24 THEN DigitSeq[n + 1] ELSE "0"]

\* Lines 112-129, for the fields of the model.
toResource(doc) ==
  [id |-> doc.id, title |-> doc.title, description |-> doc.description,
   fileId |-> doc.fileId, tags |-> doc.tags, createdAt |-> doc.createdAt,
   extractedText |-> doc.extractedText, insight |-> doc.insight,
   ownerId |-> doc.ownerId, patientIds |-> doc.patientIds]

\* Lines 131-139.
toPatient(doc) ==
  [id |-> doc.id, name |-> doc.name, ownerId |-> doc.ownerId,
   createdAt |-> doc.createdAt]

\* docs.map(toResource) and docs.map(toPatient)
mapToResource(docs) == [i \in DOMAIN docs |-> toResource(docs[i])]

mapToPatient(docs) == [i \in DOMAIN docs |-> toPatient(docs[i])]

\* Fault: the ownerId left out of the filter.
findOneOwned_anyOwner(docs, id, owner) ==
  LET hits == {i \in DOMAIN docs : docs[i].id = id}
  IN  IF hits = {} THEN <<>> ELSE << docs[CHOOSE i \in hits : \A j \in hits : i <= j] >>

\* col.findOne({ _id, ownerId }): <<>> for null, else the document.
findOneOwned(docs, id, owner) ==
  LET hits == {i \in DOMAIN docs : docs[i].id = id /\ docs[i].ownerId = owner}
  IN  IF hits = {} THEN <<>> ELSE << docs[CHOOSE i \in hits : \A j \in hits : i <= j] >>

\* col.findOne({ _id })
findOneById(docs, id) ==
  LET hits == {i \in DOMAIN docs : docs[i].id = id}
  IN  IF hits = {} THEN <<>> ELSE << docs[CHOOSE i \in hits : \A j \in hits : i <= j] >>

\* col.findOne({ fileId, ownerId }) of line 550.
findOneByFile(docs, fileId, owner) ==
  LET hits == {i \in DOMAIN docs : docs[i].fileId = <<fileId>> /\ docs[i].ownerId = owner}
  IN  IF hits = {} THEN <<>> ELSE << docs[CHOOSE i \in hits : \A j \in hits : i <= j] >>

\* col.deleteOne({ _id })
deleteOne(docs, id) == SelectSeq(docs, LAMBDA d : d.id # id)

\* { $set: fields } applied to a document.
setFields(doc, fields) ==
  [k \in DOMAIN doc |-> IF k \in DOMAIN fields THEN fields[k] ELSE doc[k]]

\* col.updateOne({ _id }, { $set: fields })
updateOne(docs, id, fields) ==
  [i \in DOMAIN docs |-> IF docs[i].id = id THEN setFields(docs[i], fields) ELSE docs[i]]

\* rCol.updateMany({ ownerId }, { $pull: { patientIds: id } })
pullPatient(docs, owner, id) ==
  [i \in DOMAIN docs |->
     IF docs[i].ownerId = owner
       THEN [docs[i] EXCEPT !.patientIds = SelectSeq(@, LAMBDA p : p # id)]
       ELSE docs[i]]

RECURSIVE insertNewest(_, _)
insertNewest(sorted, d) ==
  IF sorted = <<>> THEN <<d>>
  ELSE IF sorted[1].createdAt >= d.createdAt
    THEN <<sorted[1]>> \o insertNewest(Tail(sorted), d)
  ELSE <<d>> \o sorted

RECURSIVE sortNewest(_)
\* .sort({ createdAt: -1 })
sortNewest(docs) ==
  IF docs = <<>> THEN <<>>
  ELSE insertNewest(sortNewest(SubSeq(docs, 1, Len(docs) - 1)), docs[Len(docs)])

\* col.find({ ownerId }).sort({ createdAt: -1 }).limit(200).toArray()
findNewest(docs, owner) == sliceFront(sortNewest(filterOwner(docs, owner)), FindLimit)

\* bucket.delete(id): the file goes; the call rejects when there is none.
bucketHas(files, id) == \E f \in files : f.id = id

bucketDelete(files, id) == {f \in files : f.id # id}

\* What a handler did: the state of the stores after it, its response and
\* the storage, scoring and generator calls it made, in order.
Outcome(col, pat, bkt, res, ops) ==
  [col |-> col, pat |-> pat, bkt |-> bkt, res |-> res, ops |-> ops]

\* A response of a route other than /api/chat: the status, the error
\* message, the documents of data and the file streamed ("" and <<>> for
\* what the response does not carry).
Reply(status, error, data, file) ==
  [status |-> status, error |-> error, data |-> data, file |-> file,
   upload |-> <<>>, chat |-> <<>>]

\* The response of /api/upload-file (lines 525-533).
UploadReply(info) ==
  [status |-> 200, error |-> "", data |-> <<>>, file |-> <<>>,
   upload |-> <<info>>, chat |-> <<>>]

\* The response of /api/chat.
ChatReply(r) ==
  [status |-> r.status, error |-> r.error, data |-> <<>>, file |-> <<>>,
   upload |-> <<>>, chat |-> <<r>>]

NoReply == Reply(0, "", <<>>, <<>>)

\* A request under /api: its Authorization header, the user verifyAuth put
\* on it (<<>> when it answered 401), the route, req.params.id and the body.
Request(header, user, route, id, body) ==
  [header |-> header, user |-> user, route |-> route, id |-> id, body |-> body]

NoRequest == Request(<<>>, <<>>, "", <<>>, <<>>)

\* A value is falsy when it is missing or the empty string.
truthy(opt) == opt # <<>> /\ opt[1] # <<>>

\* GET /api/patients (lines 271-280); up tells whether the storage answers.
getPatients(user, col, pat, bkt, up) ==
  IF ~up
    THEN Outcome(col, pat, bkt, Reply(500, "Failed to fetch patients", <<>>, <<>>),
                 <<"patients.find">>)
    ELSE Outcome(col, pat, bkt,
                 Reply(200, "", mapToPatient(findNewest(pat, user.sub)), <<>>),
                 <<"patients.find">>)

\* POST /api/patients (lines 282-302); n patients were inserted before.
postPatients(user, body, col, pat, bkt, n, up) ==
  IF ~truthy(body.name)
    THEN Outcome(col, pat, bkt, Reply(400, "Name is required", <<>>, <<>>), <<>>)
  ELSE IF ~up
    THEN Outcome(col, pat, bkt, Reply(500, "Failed to create patient", <<>>, <<>>),
                 <<"patients.insertOne">>)
  ELSE LET newDoc == [id |-> objectId("b", n + 1), name |-> trim(body.name[1]),
                      ownerId |-> user.sub, createdAt |-> n + 1]
       IN  Outcome(col, Append(pat, newDoc), bkt,
                   Reply(201, "", <<newDoc>>, <<>>), <<"patients.insertOne">>)

\* DELETE /api/patients/:id (lines 304-326).
deletePatient(user, id, col, pat, bkt, up) ==
  IF ~isValid(id)
    THEN Outcome(col, pat, bkt, Reply(400, "Invalid patient id", <<>>, <<>>), <<>>)
  ELSE IF ~up
    THEN Outcome(col, pat, bkt, Reply(500, "Failed to delete patient", <<>>, <<>>),
                 <<"patients.findOne">>)
  ELSE IF findOneOwned(pat, id, user.sub) = <<>>
    THEN Outcome(col, pat, bkt, Reply(404, "Patient not found", <<>>, <<>>),
                 <<"patients.findOne">>)
  ELSE Outcome(pullPatient(col, user.sub, id), deleteOne(pat, id), bkt,
               Reply(204, "", <<>>, <<>>),
               <<"patients.findOne", "patients.deleteOne", "resources.updateMany">>)

\* GET /api/resources (lines 329-338).
getResources(user, col, pat, bkt, up) ==
  IF ~up
    THEN Outcome(col, pat, bkt, Reply(500, "Failed to fetch resources", <<>>, <<>>),
                 <<"resources.find">>)
    ELSE Outcome(col, pat, bkt,
                 Reply(200, "", mapToResource(findNewest(col, user.sub)), <<>>),
                 <<"resources.find">>)

\* tokenize(title).filter((tok) => tok.length > 0 && tok.length <= 10)
shortTokens(title) == SelectSeq(tokenize(title), LAMBDA tok : Len(tok) > 0 /\ Len(tok) <= 10)

\* body.tags is [kind |-> "absent"], an array or a string.
arrayOrEmpty(tags) == IF tags.kind = "array" THEN tags.value ELSE <<>>

\* POST /api/upload (lines 341-379); n resources were inserted before.
postUpload(user, body, col, pat, bkt, n, up) ==
  IF ~truthy(body.title) \/ ~truthy(body.description)
    THEN Outcome(col, pat, bkt,
                 Reply(400, "Title and description are required.", <<>>, <<>>), <<>>)
  ELSE IF ~up
    THEN Outcome(col, pat, bkt, Reply(500, "Failed to save resource", <<>>, <<>>),
                 <<"resources.insertOne">>)
  ELSE LET title        == body.title[1]
           providedTags == arrayOrEmpty(body.tags)
           derivedTags  == IF Len(providedTags) > 0 THEN providedTags
                           ELSE shortTokens(title)
           letterTags   == deriveLetterTags(title)
           newDoc == [id |-> objectId("a", n + 1), title |-> title,
                      description |-> body.description[1],
                      fileId |-> body.fileId,
                      tags |-> uniqueInOrder(derivedTags \o letterTags, {}),
                      createdAt |-> n + 1, extractedText |-> <<>>,
                      insight |-> <<>>, ownerId |-> user.sub,
                      patientIds |-> <<>>]
       IN  Outcome(Append(col, newDoc), pat, bkt,
                   Reply(201, "", <<newDoc>>, <<>>), <<"resources.insertOne">>)

\* toTags of lines 390-399.
toTags(tags) ==
  IF tags.kind = "array" THEN tags.value
  ELSE IF tags.kind = "string"
    THEN LET pieces == splitOn(tags.value, ",", 1, <<>>)
         IN  filterNonEmpty([i \in DOMAIN pieces |-> trim(pieces[i])])
  ELSE <<>>

\* a ?? b
orElse(opt, fallback) == IF opt = <<>> THEN fallback ELSE opt[1]

\* patientIds.filter((p) => typeof p === "string"): an entry is a string or
\* a value of another type.
onlyStrings(entries) ==
  LET kept == SelectSeq(entries, LAMBDA p : p.type = "string")
  IN  [i \in DOMAIN kept |-> kept[i].value]

\* Fault: the letter-tags always derived from the stored title.
titleForTags_existing(title, existingTitle) == existingTitle

\* title || existing.title (line 410).
titleForTags(title, existingTitle) ==
  IF truthy(title) THEN title[1] ELSE existingTitle

\* PUT /api/resources/:id (lines 382-431).
putResource(user, id, body, col, pat, bkt, up) ==
  IF ~isValid(id)
    THEN Outcome(col, pat, bkt, Reply(400, "Invalid resource id", <<>>, <<>>), <<>>)
  ELSE IF ~up
    THEN Outcome(col, pat, bkt, Reply(500, "Failed to update resource", <<>>, <<>>),
                 <<"resources.findOne">>)
  ELSE IF findOneOwned(col, id, user.sub) = <<>>
    THEN Outcome(col, pat, bkt, Reply(404, "Resource not found", <<>>, <<>>),
                 <<"resources.findOne">>)
  ELSE LET existing   == findOneOwned(col, id, user.sub)[1]
           mergedTags == IF Len(toTags(body.tags)) > 0 THEN toTags(body.tags)
                         ELSE existing.tags
           letterTags == deriveLetterTags(titleForTags(body.title, existing.title))
           updateDoc ==
             [title |-> orElse(body.title, existing.title),
              description |-> orElse(body.description, existing.description),
              fileId |-> IF body.fileId = <<>> THEN existing.fileId ELSE body.fileId,
              tags |-> uniqueInOrder(mergedTags \o letterTags, {}),
              patientIds |-> IF body.patientIds.kind = "array"
                               THEN onlyStrings(body.patientIds.value)
                               ELSE existing.patientIds]
           after   == updateOne(col, id, updateDoc)
           updated == findOneById(after, id)
       IN  Outcome(after, pat, bkt,
                   Reply(200, "", mapToResource(updated), <<>>),
                   <<"resources.findOne", "resources.updateOne", "resources.findOne">>)

\* PUT /api/resources/:id/patients (lines 434-457); a missing patientIds is
\* the empty array.
putResourcePatients(user, id, body, col, pat, bkt, up) ==
  IF ~isValid(id)
    THEN Outcome(col, pat, bkt, Reply(400, "Invalid resource id", <<>>, <<>>), <<>>)
  ELSE IF body.patientIds.kind \notin {"array", "absent"}
    THEN Outcome(col, pat, bkt,
                 Reply(400, "patientIds must be an array", <<>>, <<>>), <<>>)
  ELSE IF ~up
    THEN Outcome(col, pat, bkt,
                 Reply(500, "Failed to update resource patients", <<>>, <<>>),
                 <<"resources.findOne">>)
  ELSE IF findOneOwned(col, id, user.sub) = <<>>
    THEN Outcome(col, pat, bkt, Reply(404, "Resource not found", <<>>, <<>>),
                 <<"resources.findOne">>)
  ELSE LET cleanIds == IF body.patientIds.kind = "array"
                         THEN onlyStrings(body.patientIds.value) ELSE <<>>
           after    == updateOne(col, id, [patientIds |-> cleanIds])
           updated  == findOneById(after, id)
       IN  Outcome(after, pat, bkt,
                   Reply(200, "", mapToResource(updated), <<>>),
                   <<"resources.findOne", "resources.updateOne", "resources.findOne">>)

\* Fault: a rejected bucket.delete reaches the outer catch.
replyAfterFileDelete_uncaught(fileOk) ==
  IF fileOk THEN Reply(204, "", <<>>, <<>>)
  ELSE Reply(500, "Failed to delete resource", <<>>, <<>>)

\* Lines 475-483: the inner catch logs a rejected bucket.delete and the
\* handler answers 204 either way.
replyAfterFileDelete(fileOk) == Reply(204, "", <<>>, <<>>)

\* DELETE /api/resources/:id (lines 460-489); fileOk tells whether
\* bucket.delete resolves when the file is there.
deleteResource(user, id, col, pat, bkt, up, fileOk) ==
  IF ~isValid(id)
    THEN Outcome(col, pat, bkt, Reply(400, "Invalid resource id", <<>>, <<>>), <<>>)
  ELSE IF ~up
    THEN Outcome(col, pat, bkt, Reply(500, "Failed to delete resource", <<>>, <<>>),
                 <<"resources.findOne">>)
  ELSE IF findOneOwned(col, id, user.sub) = <<>>
    THEN Outcome(col, pat, bkt, Reply(404, "Resource not found", <<>>, <<>>),
                 <<"resources.findOne">>)
  ELSE LET existing == findOneOwned(col, id, user.sub)[1]
       IN  IF truthy(existing.fileId) /\ isValid(existing.fileId[1])
             THEN LET deleted == fileOk /\ bucketHas(bkt, existing.fileId[1])
                  IN  Outcome(deleteOne(col, id), pat,
                              IF deleted THEN bucketDelete(bkt, existing.fileId[1]) ELSE bkt,
                              replyAfterFileDelete(deleted),
                              <<"resources.findOne", "resources.deleteOne", "bucket.delete">>
                                \o (IF deleted THEN <<>> ELSE <<"console.error">>))
             ELSE Outcome(deleteOne(col, id), pat, bkt, Reply(204, "", <<>>, <<>>),
                          <<"resources.findOne", "resources.deleteOne">>)

\* The suggestion of lines 516 and 195: no tags, and ageRange, type and
\* summary undefined.
NoSuggestion == [tags |-> <<>>, ageRange |-> <<>>, type |-> <<>>, summary |-> <<>>]

\* Fault: a failed extraction or suggestion reaches the outer catch.
replyAfterEnrichFailure_uncaught(info) ==
  Reply(500, "Failed to process file.", <<>>, <<>>)

\* Lines 518-533: the inner catch logs the failure and the response is sent
\* with what was assigned before it.
replyAfterEnrichFailure(info) == UploadReply(info)

\* POST /api/upload-file (lines 492-540); n files were stored before.  The
\* file is <<>> when the request carries none.  enrich.text is <<>> when the
\* extraction throws and else the text extracted; enrich.suggest is <<>> when
\* the completion rejects and else the suggestion parsed from it.  uploader is not
\* a field of the stored file: it records whose request stored it.
postUploadFile(user, file, col, pat, bkt, n, key, up, enrich) ==
  IF file = <<>>
    THEN Outcome(col, pat, bkt, Reply(400, "No file provided.", <<>>, <<>>), <<>>)
  ELSE IF ~up
    THEN Outcome(col, pat, bkt, Reply(500, "Failed to process file.", <<>>, <<>>),
                 <<"bucket.openUploadStream">>)
  ELSE LET fileId == objectId("c", n + 1)
           stored == [id |-> fileId, filename |-> file[1].originalname,
                      content |-> file[1].buffer, uploader |-> user.sub]
           after  == bkt \cup {stored}
           info(text, suggested) ==
             [fileId |-> fileId, filename |-> file[1].originalname,
              extractedText |-> text, suggested |-> suggested]
       IN  IF enrich.text = <<>>
             THEN Outcome(col, pat, after,
                          replyAfterEnrichFailure(info(<<>>, NoSuggestion)),
                          <<"bucket.openUploadStream", "extractTextFromFile",
                            "console.error">>)
           ELSE IF ~key \/ trim(enrich.text[1]) = <<>>
             THEN Outcome(col, pat, after,
                          UploadReply(info(enrich.text[1], NoSuggestion)),
                          <<"bucket.openUploadStream", "extractTextFromFile">>)
           ELSE IF enrich.suggest = <<>>
             THEN Outcome(col, pat, after,
                          replyAfterEnrichFailure(info(enrich.text[1], NoSuggestion)),
                          <<"bucket.openUploadStream", "extractTextFromFile",
                            "openai.suggest", "console.error">>)
           ELSE Outcome(col, pat, after,
                        UploadReply(info(enrich.text[1], enrich.suggest[1])),
                        <<"bucket.openUploadStream", "extractTextFromFile",
                          "openai.suggest">>)

\* GET /api/files/:id (lines 543-572).
getFile(user, id, col, pat, bkt, up) ==
  IF ~isValid(id)
    THEN Outcome(col, pat, bkt, Reply(400, "Invalid file id", <<>>, <<>>), <<>>)
  ELSE IF ~up
    THEN Outcome(col, pat, bkt, Reply(500, "Failed to download file", <<>>, <<>>),
                 <<"resources.findOne">>)
  ELSE IF findOneByFile(col, id, user.sub) = <<>>
    THEN Outcome(col, pat, bkt, Reply(404, "File not found", <<>>, <<>>),
                 <<"resources.findOne">>)
  ELSE IF ~bucketHas(bkt, id)
    THEN Outcome(col, pat, bkt, Reply(404, "File not found", <<>>, <<>>),
                 <<"resources.findOne", "bucket.openDownloadStream">>)
  ELSE Outcome(col, pat, bkt,
               Reply(200, "", <<>>, << CHOOSE f \in bkt : f.id = id >>),
               <<"resources.findOne", "bucket.openDownloadStream">>)

\* POST /api/chat (lines 575-652) from the request to the response.  Of gen,
\* reply and notes are <<>> when the completion rejects and else its content.
postChat(user, body, col, pat, bkt, key, up, gen) ==
  IF ~truthy(body.message)
    THEN Outcome(col, pat, bkt, ChatReply(MessageRequired), <<>>)
  ELSE IF ~key
    THEN Outcome(col, pat, bkt, ChatReply(KeyMissing), <<>>)
  ELSE IF ~up
    THEN Outcome(col, pat, bkt, ChatReply(Unavailable), <<"resources.find">>)
  ELSE LET resources == mapToResource(findResources(col, user.sub))
           top       == scoreResources(body.message[1], resources)
       IN  IF gen.reply = <<>>
             THEN Outcome(col, pat, bkt, ChatReply(Unavailable),
                          <<"resources.find", "scoreResources", "openai.reply">>)
           ELSE IF top = <<>>
             THEN Outcome(col, pat, bkt,
                          ChatReply(responseAfterNotes(replyText(gen.reply[1]), top, <<>>)),
                          <<"resources.find", "scoreResources", "openai.reply">>)
           ELSE IF gen.notes = <<>>
             THEN Outcome(col, pat, bkt,
                          ChatReply(responseAfterNoteFailure(replyText(gen.reply[1]), top)),
                          <<"resources.find", "scoreResources", "openai.reply",
                            "openai.notes">>)
           ELSE Outcome(col, pat, bkt,
                        ChatReply(responseAfterNotes(replyText(gen.reply[1]), top,
                                                     parseNotes(top, gen.notes[1]))),
                        <<"resources.find", "scoreResources", "openai.reply",
                          "openai.notes">>)

----------------------------------------------------------------------------
(* Bounded inputs of the scoring specification.                             *)

\* Longest list drawn from RankContents, and from all of Contents.
MaxList == 6

MaxShort == 2

Str_cat == <<"c","a","t">>

Str_cats == <<"c","a","t","s">>

Str_pair == <<"p","a","i","r">>

\* "", "!!!" and "   " tokenize to nothing.
Queries ==
  { <<>>, <<"!","!","!">>, <<" "," "," ">>, Str_cats, <<"x"," ","y"," ","c","a","t">>, <<"S">>, Str_pair }

Content(title, description, tags, extractedText) ==
  [title |-> title, description |-> description, tags |-> tags,
   extractedText |-> extractedText]

\* "Ss" / "cat" / [minimal-pairs], no extracted text.
ContentSs == Content(<<"S","s">>, Str_cat, << <<"m","i","n","i","m","a","l","-","p","a","i","r","s">> >>, <<>>)

\* "x" / "y cats": the phrase "x y cat" occurs in its corpus, the token
\* "cat" does not.
ContentBase == Content(<<"x">>, <<"y"," ","c","a","t","s">>, <<>>, <<>>)

\* ContentBase with the token "cat" added between "x" and "y".
ContentMid == Content(<<"x">>, <<"c","a","t"," ","y"," ","c","a","t","s">>, <<>>, <<>>)

\* ContentBase with the token "cat" added as the extracted text, at the end
\* of the corpus.
ContentEnd == Content(<<"x">>, <<"y"," ","c","a","t","s">>, <<>>, << Str_cat >>)

\* "B1" / "!!!" / [Dog], empty extracted text: no token of any query, while
\* the strings "" and "!!!" occur in its corpus.
ContentNone == Content(<<"B","1">>, <<"!","!","!">>, << <<"D","o","g">> >>, << <<>> >>)

\* Two stored tags that both contain "pair".
ContentTags == Content(<<"P">>, <<>>, << <<"P","a","i","r","s">>, <<"p","a","i","r","-","u","p">> >>, <<>>)

\* ContentBase with the token "cat" added as a stored tag.
ContentTagAdd == Content(<<"x">>, <<"y"," ","c","a","t","s">>, << Str_cat >>, <<>>)

Contents ==
  {ContentSs, ContentBase, ContentMid, ContentEnd, ContentTagAdd, ContentNone,
   ContentTags}

RankContents == {ContentSs, ContentBase, ContentNone}

\* A fetched document: the content under its own _id.
Doc(id, c) ==
  [id |-> id, title |-> c.title, description |-> c.description,
   tags |-> c.tags, extractedText |-> c.extractedText, insight |-> <<>>]

ListsOver(pool, maxLen) ==
  UNION { { [i \in 1..n |-> Doc(i, f[i])] : f \in [1..n -> pool] }
          : n \in 0..maxLen }

\* The queries paired with the lists longer than MaxShort.
RankQueries == {Str_cats, <<"S">>}

ScoreInputs ==
  (Queries \X ListsOver(Contents, MaxShort))
    \cup (RankQueries \X ListsOver(RankContents, MaxList))

----------------------------------------------------------------------------
(* Bounded inputs of the note specification.                                *)

\* Longest shortlist passed, and most lines of a completion.
MaxNoteResources == 3

MaxLines == 3

\* "1) a", "2) b", "3) c"; a blank line; "2) " (a numbered line left blank);
\* "x" (a line without number); " 12)  y " (blanks around, two digits);
\* "1 )z" (no numbering prefix: a blank before the parenthesis).
GeneratorLines ==
  { <<"1",")"," ","a">>, <<"2",")"," ","b">>, <<"3",")"," ","c">>, <<>>, <<"2",")"," ">>, <<"x">>, <<" ","1","2",")"," "," ","y"," ">>, <<"1"," ",")","z">> }

GeneratorTexts ==
  UNION { { join(ls, <<"\n">>) : ls \in [1..n -> GeneratorLines] } : n \in 0..MaxLines }

\* The content of a completion: a text, or null.
GeneratorContents == {<<>>} \cup { <<t>> : t \in GeneratorTexts }

NoteShortlists ==
  { [i \in 1..n |-> Doc(i, ContentSs)] : n \in 0..MaxNoteResources }

----------------------------------------------------------------------------
(* Bounded inputs of the server specification.                              *)

\* Most documents the collection holds.
MaxStored == 3

\* The default users of lines 67-68.
Users == {"therapist", "assistant"}

\* The documents the collection is filled from, in store order; the third
\* carries a stored insight field.
StoreDocs ==
  << StoredDoc(1, ContentSs, "therapist", <<>>),
     StoredDoc(2, ContentBase, "assistant", <<>>),
     StoredDoc(3, ContentBase, "therapist", << <<"o","l","d">> >>),
     StoredDoc(4, ContentNone, "therapist", <<>>) >>

Collections ==
  { SubSeq(StoreDocs, 1, n) : n \in 0..(IF MaxStored < Len(StoreDocs) THEN MaxStored ELSE Len(StoreDocs)) }

\* req.body.message: missing, "", "cats", "S".
ChatMessages == { <<>>, << <<>> >>, << Str_cats >>, << <<"S">> >> }

\* req.body.history
ChatHistories == { <<>>, << [role |-> "user", content |-> <<"S">>] >> }

\* The content of the reply completion: null or a text.
ReplyContents == { <<>>, <<"Try the S cards.">> }

\* The content of the note completion: null, "1) a\n2) b", "2) b", "x\n1) a".
NoteContents == { <<>>, << <<"1",")"," ","a","\n","2",")"," ","b">> >>, << <<"2",")"," ","b">> >>, << <<"x","\n","1",")"," ","a">> >> }

\* The Authorization headers of the requests.  The tokens are the base64
\* texts of "therapist:speech123", "assistant:helper123",
\* "therapist:helper123", "therapist:speech123:x" and "therapist".
BasicPrefix == <<"B","a","s","i","c"," ">>

TokenTherapist == <<"d","G","h","l","c","m","F","w","a","X","N","0","O","n","N","w","Z","W","V","j","a","D","E","y","M","w","=","=">>

TokenAssistant == <<"Y","X","N","z","a","X","N","0","Y","W","5","0","O","m","h","l","b","H","B","l","c","j","E","y","M","w","=","=">>

TokenCrossed == <<"d","G","h","l","c","m","F","w","a","X","N","0","O","m","h","l","b","H","B","l","c","j","E","y","M","w","=","=">>

TokenExtraField == <<"d","G","h","l","c","m","F","w","a","X","N","0","O","n","N","w","Z","W","V","j","a","D","E","y","M","z","p","4">>

TokenNameOnly == <<"d","G","h","l","c","m","F","w","a","X","N","0">>

\* No header; another scheme; the scheme in lower case; no token; a user
\* name without password; one user's name with the other's password; the
\* two users' own credentials; a third field after the password.
HeaderTherapist == << BasicPrefix \o TokenTherapist >>

HeaderAssistant == << BasicPrefix \o TokenAssistant >>

HeaderExtraField == << BasicPrefix \o TokenExtraField >>

Headers ==
  { <<>>,
    << <<"B","e","a","r","e","r"," ">> \o TokenTherapist >>,
    << <<"b","a","s","i","c"," ">> \o TokenTherapist >>,
    << BasicPrefix >>,
    << BasicPrefix \o TokenNameOnly >>,
    << BasicPrefix \o TokenCrossed >>,
    HeaderTherapist, HeaderAssistant, HeaderExtraField }

\* Most resources, patients and files inserted in one run.
MaxResources == 2

MaxPatients == 1

MaxFiles == 1

ResourceIds == {objectId("a", k) : k \in 1..MaxResources}

PatientIds == {objectId("b", k) : k \in 1..MaxPatients}

FileIds == {objectId("c", k) : k \in 1..MaxFiles}

\* "abc", and 24 characters of which the first is no hexadecimal digit.
MalformedIds == { <<"a","b","c">>, objectId("x", 1) }

NoTags == [kind |-> "absent"]

NoPatientIds == [kind |-> "absent"]

\* The bodies of POST /api/upload: without title, and "Ss" / "d" with or
\* without the identifier of a file.
UploadBodies ==
  { [title |-> <<>>, description |-> << <<"d">> >>, tags |-> NoTags, fileId |-> <<>>] }
    \cup { [title |-> << <<"S","s">> >>, description |-> << <<"d">> >>,
            tags |-> NoTags, fileId |-> f] : f \in {<<>>} \cup {<<id>> : id \in FileIds} }

\* The body of PUT /api/resources/:id: the file c1 and the patients [b1, 7],
\* the other fields left as they are.
UpdateBodies ==
  { [title |-> <<>>, description |-> <<>>, tags |-> NoTags,
     fileId |-> <<objectId("c", 1)>>,
     patientIds |-> [kind |-> "array",
                     value |-> << [type |-> "string", value |-> objectId("b", 1)],
                                  [type |-> "number", value |-> 7] >>]] }

\* The bodies of PUT /api/resources/:id/patients: no patientIds, [b1], and
\* a patientIds that is no array.
AssignBodies ==
  { [patientIds |-> NoPatientIds],
    [patientIds |-> [kind |-> "array",
                     value |-> << [type |-> "string", value |-> objectId("b", 1)] >>]],
    [patientIds |-> [kind |-> "string", value |-> objectId("b", 1)]] }

PatientBodies == { [name |-> <<>>], [name |-> << <<"A","l"," ">> >>] }

\* req.file: none, or a document.
UploadFiles == { <<>>, << [originalname |-> "a.pdf", buffer |-> "bytes of a.pdf"] >> }

\* The extraction throws; it gives a text and the suggestion completion
\* rejects; it gives a text and the completion names a tag, an age range,
\* a type and a summary.
Enrichments ==
  { [text |-> <<>>, suggest |-> <<>>],
    [text |-> << <<"s">> >>, suggest |-> <<>>],
    [text |-> << <<"s">> >>,
     suggest |-> << [tags |-> << <<"s","o","u","n","d">> >>, ageRange |-> <<"3-5">>,
                     type |-> <<"worksheet">>, summary |-> <<"S sound cards">>] >>] }

\* The bodies of POST /api/chat: no message, "", "S".
ChatBodies ==
  { [message |-> m, history |-> <<>>] : m \in { <<>>, << <<>> >>, << <<"S">> >> } }

\* The two completions of a chat request: each rejects or has a content.
Generations ==
  { [reply |-> r, notes |-> n] :
      r \in { <<>>, << <<"Try the S cards.">> >> },
      n \in { <<>>, << << <<"1",")"," ","a","\n","2",")"," ","b">> >> >> } }

UpdateRequests == (ResourceIds \cup MalformedIds) \X UpdateBodies

\* Every body on the well-formed identifiers, the array on the others.
AssignRequests ==
  (ResourceIds \X AssignBodies)
    \cup (MalformedIds \X {b \in AssignBodies : b.patientIds.kind = "array"})

\* The chat bodies without message need no completion.
ChatRequests ==
  {bg \in ChatBodies \X Generations :
     truthy(bg[1].message) \/ (bg[2].reply = <<>> /\ bg[2].notes = <<>>)}

Routes ==
  { "GET /api/patients", "POST /api/patients", "DELETE /api/patients/:id",
    "GET /api/resources", "POST /api/upload", "PUT /api/resources/:id",
    "PUT /api/resources/:id/patients", "DELETE /api/resources/:id",
    "POST /api/upload-file", "GET /api/files/:id", "POST /api/chat" }

\* The requests verifyAuth answers itself: every header it denies on one
\* route, and every route without a header.
UnauthenticatedRequests ==
  (Headers \X {"DELETE /api/resources/:id"}) \cup ({<<>>} \X Routes)

----------------------------------------------------------------------------
(* The scoring specification: scoreResources applied to bounded inputs.     *)

\* No call of buildResourceNotes is under way.
NotesIdle ==
  /\ noteResources = <<>>
  /\ notePc = "idle"
  /\ genOutput = <<>>
  /\ notes = <<>>
  /\ genCalls = 0

\* No call of scoreResources is under study.
ScoreIdle ==
  /\ argQuery = <<>>
  /\ argList = <<>>
  /\ phase = "idle"
  /\ lastScored = <<>>
  /\ shortlist = <<>>

\* No chat request was received.
ChatIdle ==
  /\ apiKey = TRUE
  /\ collection = <<>>
  /\ chatPc = "off"
  /\ chatReq = [user |-> "", message |-> <<>>, history |-> <<>>]
  /\ topMatches = <<>>
  /\ aiMessage = ""
  /\ genLog = <<>>
  /\ response = NoResponse

\* No request was received under /api and the stores are empty.
ServerIdle ==
  /\ patients = <<>>
  /\ bucket = {}
  /\ created = [a |-> 0, b |-> 0, c |-> 0]
  /\ dbUp = TRUE
  /\ srvReq = NoRequest
  /\ srvRes = NoReply
  /\ srvOps = <<>>

\* No text function is under study.
TextIdle ==
  /\ textFn = "idle"
  /\ textIn = <<>>
  /\ textOut = <<>>

\* The client shows no resource and no delete is under way.
ClientIdle ==
  /\ library = <<>>
  /\ remote = {}
  /\ timer = <<>>
  /\ deleteTimers = <<>>
  /\ request = <<>>
  /\ toast = <<>>

\* db.ts before any call: the module variables are null.
DbIdle ==
  /\ mongoUri = TRUE
  /\ client = <<>>
  /\ db = <<>>
  /\ uploadsBucket = <<>>
  /\ clientState = <<>>
  /\ callPc = <<>>
  /\ callClient = <<>>
  /\ callResult = <<>>
  /\ closePc = "idle"
  /\ closeClient = 0

ScoreInit ==
  /\ NotesIdle
  /\ ChatIdle
  /\ ServerIdle
  /\ TextIdle
  /\ ClientIdle
  /\ DbIdle
  /\ \E input \in ScoreInputs :
        /\ argQuery = input[1]
        /\ argList = input[2]
  /\ phase = "start"
  /\ lastScored = <<>>
  /\ shortlist = <<>>

\* scoreResources(query, list): the first call on the array, and a second
\* call with the same arguments.
CallScoreResources ==
  /\ phase \in {"start", "called", "interleaved", "edited"}
  /\ LET run == scoreResourcesRun(argQuery, argList)
     IN  /\ lastScored' = run.scored
         /\ shortlist' = run.result
  /\ argList' = inputAfterCall(argQuery, argList)
  /\ phase' = IF phase = "start" THEN "called"
              ELSE IF phase = "edited" THEN "rescored"
              ELSE "calledAgain"
  /\ UNCHANGED <<argQuery, noteVars, chatVars, serverVars, textVars, clientVars, dbVars>>

\* A call made by another request on the same array with a different query,
\* between the two calls; its result belongs to that request.
CallWithOtherQuery ==
  /\ phase = "called"
  /\ \E q \in Queries \ {argQuery} :
        argList' = inputAfterCall(q, argList)
  /\ phase' = "interleaved"
  /\ UNCHANGED <<argQuery, lastScored, shortlist, noteVars, chatVars, serverVars, textVars, clientVars, dbVars>>

ScoreNext == CallScoreResources \/ CallWithOtherQuery

SpecScore == ScoreInit /\ [][ScoreNext]_vars

----------------------------------------------------------------------------
(* scoreResources called on a list, and called again after one resource of *)
(* the list was updated through PUT /api/resources/:id (index.ts 413-424). *)

\* "Ss" / "cat" / [minimal-pairs] / extracted text "x": its corpus is
\* "Ss cat minimal-pairs s /s/ letter-s x".
ContentFull == Content(<<"S","s">>, Str_cat, << <<"m","i","n","i","m","a","l","-","p","a","i","r","s">> >>, << <<"x">> >>)

CorpusContents == {ContentFull, ContentSs, ContentBase, ContentNone}

\* Phrases that span two neighbouring fields of ContentFull's corpus, and one
\* that lies in the letter-tags alone.
CorpusQueries ==
  { <<"s","s"," ","c","a","t">>,
    <<"c","a","t"," ","m","i","n","i","m","a","l">>,
    <<"p","a","i","r","s"," ","s">>,
    <<"l","e","t","t","e","r","-","s"," ","x">>,
    <<"/","s","/">> }

CorpusInit ==
  /\ NotesIdle
  /\ ChatIdle
  /\ ServerIdle
  /\ TextIdle
  /\ ClientIdle
  /\ DbIdle
  /\ argQuery \in CorpusQueries
  /\ argList \in ListsOver(CorpusContents, MaxShort)
  /\ phase = "start"
  /\ lastScored = <<>>
  /\ shortlist = <<>>

\* PUT /api/resources/:id between two calls: the body carries a title, a
\* description and an array of tags; lines 408-424 merge the tags, add the
\* letter-tags of the new title and $set the three fields. The extracted
\* text is no field of the update.
ResourceUpdated ==
  /\ phase = "called"
  /\ \E k \in DOMAIN argList, c \in CorpusContents :
        LET existing   == argList[k]
            mergedTags == IF Len(c.tags) > 0 THEN c.tags ELSE existing.tags
            letterTags == deriveLetterTags(c.title)
        IN  /\ argList' = [argList EXCEPT ![k] =
                             [@ EXCEPT !.title = c.title,
                                       !.description = c.description,
                                       !.tags = uniqueInOrder(mergedTags \o letterTags, {})]]
            /\ argList' # argList
  /\ phase' = "edited"
  /\ UNCHANGED <<argQuery, lastScored, shortlist, noteVars, chatVars, serverVars, textVars, clientVars, dbVars>>

CorpusNext == CallScoreResources \/ ResourceUpdated

SpecCorpus == CorpusInit /\ [][CorpusNext]_vars

----------------------------------------------------------------------------
(* The note specification: buildResourceNotes on bounded shortlists, with   *)
(* the text generator answering any of GeneratorContents or failing.        *)

\* Fault: the guard of line 224 never returns.
noResources_never(resources) == FALSE

\* resources.length === 0 (line 224).
noResources(resources) == Len(resources) = 0

NotesInit ==
  /\ ScoreIdle
  /\ ChatIdle
  /\ ServerIdle
  /\ TextIdle
  /\ ClientIdle
  /\ DbIdle
  /\ noteResources \in NoteShortlists
  /\ notePc = "start"
  /\ genOutput = <<>>
  /\ notes = <<>>
  /\ genCalls = 0

\* Lines 223-252: an empty shortlist returns [] at once; otherwise the
\* request is sent and the call waits for the completion.
BuildNotesCall ==
  /\ notePc = "start"
  /\ IF noResources(noteResources)
       THEN /\ notePc' = "returned"
            /\ notes' = <<>>
            /\ UNCHANGED genCalls
       ELSE /\ notePc' = "awaiting"
            /\ genCalls' = genCalls + 1
            /\ UNCHANGED notes
  /\ UNCHANGED <<noteResources, genOutput, scoreVars, chatVars, serverVars, textVars, clientVars, dbVars>>

\* Lines 254-260: the completion resolved.
GeneratorReturns ==
  /\ notePc = "awaiting"
  /\ \E content \in GeneratorContents :
        /\ genOutput' = content
        /\ notes' = parseNotes(noteResources, content)
  /\ notePc' = "returned"
  /\ UNCHANGED <<noteResources, genCalls, scoreVars, chatVars, serverVars, textVars, clientVars, dbVars>>

\* Line 248: the awaited request rejected; the call throws.
GeneratorThrows ==
  /\ notePc = "awaiting"
  /\ notePc' = "threw"
  /\ UNCHANGED <<noteResources, genOutput, notes, genCalls, scoreVars, chatVars, serverVars, textVars, clientVars, dbVars>>

NotesNext == BuildNotesCall \/ GeneratorReturns \/ GeneratorThrows

SpecNotes == NotesInit /\ [][NotesNext]_vars

----------------------------------------------------------------------------
(* The server specification: one POST /api/chat request, the handler run    *)
(* from one await to the next, every awaited call resolving or rejecting.   *)

Init ==
  /\ ScoreIdle
  /\ NotesIdle
  /\ ServerIdle
  /\ TextIdle
  /\ ClientIdle
  /\ DbIdle
  /\ apiKey \in BOOLEAN
  /\ collection \in Collections
  /\ chatPc = "idle"
  /\ chatReq = [user |-> "", message |-> <<>>, history |-> <<>>]
  /\ topMatches = <<>>
  /\ aiMessage = ""
  /\ genLog = <<>>
  /\ response = NoResponse

\* The outcome of the last generator request becomes o.
settle(log, o) == [log EXCEPT ![Len(log)].outcome = o]

\* Lines 575-589: the request of an authenticated user arrives; the body is
\* validated and the configuration checked before the first await.
ChatReceive ==
  /\ chatPc = "idle"
  /\ \E u \in Users, m \in ChatMessages, h \in ChatHistories :
        /\ chatReq' = [user |-> u, message |-> m, history |-> h]
        /\ IF m = <<>> \/ m[1] = <<>>
             THEN response' = MessageRequired /\ chatPc' = "responded"
             ELSE IF ~apiKey
               THEN response' = KeyMissing /\ chatPc' = "responded"
               ELSE response' = response /\ chatPc' = "fetching"
  /\ UNCHANGED <<apiKey, collection, topMatches, aiMessage, genLog, scoreVars, noteVars, serverVars, textVars, clientVars, dbVars>>

\* Fault: the earlier turns searched together with the message.
retrievalQuery_withHistory(message, history) ==
  join([i \in DOMAIN history |-> history[i].content] \o <<message>>, Space)

\* The first argument of scoreResources at line 594: the message.
retrievalQuery(message, history) == message

\* Lines 591-594: the user's stored resources scored against the request.
retrieve(req, docs) ==
  scoreResources(retrievalQuery(req.message[1], req.history),
                 findResources(docs, req.user))

\* A request to the text generator, as the log keeps it.
GenRequest(kind, history, resources) ==
  [kind |-> kind, history |-> history, resources |-> resources,
   outcome |-> "pending"]

\* Fault: the note completion requested together with the reply completion.
issuedAfterRanking_withNotes(history, matches) ==
  << GenRequest("reply", history, matches), GenRequest("notes", <<>>, matches) >>

\* Lines 610-625: what the handler requests once topMatches is computed,
\* before it awaits: the reply completion alone.
issuedAfterRanking(history, matches) == << GenRequest("reply", history, matches) >>

\* Lines 589-625: the find resolved; the resources are scored and the reply
\* completion is requested.
ChatFetchResolves ==
  /\ chatPc = "fetching"
  /\ topMatches' = retrieve(chatReq, collection)
  /\ genLog' = genLog \o issuedAfterRanking(chatReq.history, topMatches')
  /\ chatPc' = "awaitReply"
  /\ UNCHANGED <<apiKey, collection, chatReq, aiMessage, response, scoreVars, noteVars, serverVars, textVars, clientVars, dbVars>>

\* Lines 589-591 reject: the outer catch answers.
ChatFetchRejects ==
  /\ chatPc = "fetching"
  /\ response' = Unavailable
  /\ chatPc' = "responded"
  /\ UNCHANGED <<apiKey, collection, chatReq, topMatches, aiMessage, genLog, scoreVars, noteVars, serverVars, textVars, clientVars, dbVars>>

\* Lines 621-631: the reply completion resolved.  buildResourceNotes is
\* called: with an empty shortlist it returns [] and the response is sent,
\* otherwise the note completion is requested.
ChatReplyResolves ==
  /\ chatPc = "awaitReply"
  /\ \E content \in ReplyContents :
        /\ aiMessage' = replyText(content)
        /\ IF topMatches = <<>>
             THEN /\ response' = responseAfterNotes(aiMessage', topMatches, <<>>)
                  /\ genLog' = settle(genLog, "ok")
                  /\ chatPc' = "responded"
             ELSE /\ response' = response
                  /\ genLog' = Append(settle(genLog, "ok"),
                                      GenRequest("notes", <<>>, topMatches))
                  /\ chatPc' = "awaitNotes"
  /\ UNCHANGED <<apiKey, collection, chatReq, topMatches, scoreVars, noteVars, serverVars, textVars, clientVars, dbVars>>

\* Line 621 rejects: the outer catch answers.
ChatReplyRejects ==
  /\ chatPc = "awaitReply"
  /\ genLog' = settle(genLog, "failed")
  /\ response' = Unavailable
  /\ chatPc' = "responded"
  /\ UNCHANGED <<apiKey, collection, chatReq, topMatches, aiMessage, scoreVars, noteVars, serverVars, textVars, clientVars, dbVars>>

\* Lines 631-640: the note completion resolved and was parsed.
ChatNotesResolve ==
  /\ chatPc = "awaitNotes"
  /\ \E content \in NoteContents :
        response' = responseAfterNotes(aiMessage, topMatches,
                                       parseNotes(topMatches, content))
  /\ genLog' = settle(genLog, "ok")
  /\ chatPc' = "responded"
  /\ UNCHANGED <<apiKey, collection, chatReq, topMatches, aiMessage, scoreVars, noteVars, serverVars, textVars, clientVars, dbVars>>

\* Lines 631-640: buildResourceNotes threw.
ChatNotesReject ==
  /\ chatPc = "awaitNotes"
  /\ response' = responseAfterNoteFailure(aiMessage, topMatches)
  /\ genLog' = settle(genLog, "failed")
  /\ chatPc' = "responded"
  /\ UNCHANGED <<apiKey, collection, chatReq, topMatches, aiMessage, scoreVars, noteVars, serverVars, textVars, clientVars, dbVars>>

Next ==
  \/ ChatReceive
  \/ ChatFetchResolves
  \/ ChatFetchRejects
  \/ ChatReplyResolves
  \/ ChatReplyRejects
  \/ ChatNotesResolve
  \/ ChatNotesReject

Spec == Init /\ [][Next]_vars

----------------------------------------------------------------------------
(* The routes specification: requests under /api arrive one after another,  *)
(* each with any of Headers; verifyAuth answers 401 or lets the route's     *)
(* handler run, and the handler runs to its response.                       *)

ServerInit ==
  /\ ScoreIdle
  /\ NotesIdle
  /\ TextIdle
  /\ ClientIdle
  /\ DbIdle
  /\ apiKey \in BOOLEAN
  /\ collection = <<>>
  /\ chatPc = "off"
  /\ chatReq = [user |-> "", message |-> <<>>, history |-> <<>>]
  /\ topMatches = <<>>
  /\ aiMessage = ""
  /\ genLog = <<>>
  /\ response = NoResponse
  /\ patients = <<>>
  /\ bucket = {}
  /\ created = [a |-> 0, b |-> 0, c |-> 0]
  /\ dbUp \in BOOLEAN
  /\ srvReq = NoRequest
  /\ srvRes = NoReply
  /\ srvOps = <<>>

\* What a request under /api leaves alone whatever its route.
serverFixed ==
  <<apiKey, dbUp, chatPc, chatReq, topMatches, aiMessage, genLog, response,
    scoreVars, noteVars, textVars, clientVars, dbVars>>

\* The request req was answered as the handler's outcome out says.
Respond(req, out) ==
  /\ srvReq' = req
  /\ collection' = out.col
  /\ patients' = out.pat
  /\ bucket' = out.bkt
  /\ srvRes' = out.res
  /\ srvOps' = out.ops

\* app.use("/api", verifyAuth) (lines 267-268): what the middleware does
\* with each of the headers.
authOutcome == [h \in Headers |-> verifyAuth(h)]

\* The middleware called next() for the header.
Authenticated(h) == authOutcome[h].user # <<>>

userOf(h) == authOutcome[h].user[1]

\* No request is being handled: the server waits for the next one.
Listening == srvReq = NoRequest

\* Lines 92-94 and 99-101: the middleware answers 401 and the route is not
\* reached, whatever the route.
RejectUnauthenticated ==
  /\ Listening
  /\ \E hr \in UnauthenticatedRequests :
        LET h == hr[1]
            r == hr[2]
        IN
        /\ ~Authenticated(h)
        /\ srvReq' = Request(h, <<>>, r, <<>>, <<>>)
        /\ srvRes' = Reply(authOutcome[h].status, authOutcome[h].error, <<>>, <<>>)
  /\ srvOps' = <<>>
  /\ UNCHANGED <<collection, patients, bucket, created, serverFixed>>

GetPatients ==
  /\ Listening
  /\ \E h \in Headers :
        /\ Authenticated(h)
        /\ Respond(Request(h, authOutcome[h].user, "GET /api/patients", <<>>, <<>>),
                   getPatients(userOf(h), collection, patients, bucket, dbUp))
  /\ UNCHANGED <<created, serverFixed>>

PostPatients ==
  /\ Listening
  /\ created.b < MaxPatients
  /\ \E h \in Headers, body \in PatientBodies :
        /\ Authenticated(h)
        /\ Respond(Request(h, authOutcome[h].user, "POST /api/patients", <<>>, body),
                   postPatients(userOf(h), body, collection, patients, bucket,
                                created.b, dbUp))
  /\ created' = [created EXCEPT !.b = Len(patients') - Len(patients) + @]
  /\ UNCHANGED serverFixed

DeletePatient ==
  /\ Listening
  /\ \E h \in Headers, id \in PatientIds \cup MalformedIds :
        /\ Authenticated(h)
        /\ Respond(Request(h, authOutcome[h].user, "DELETE /api/patients/:id", id, <<>>),
                   deletePatient(userOf(h), id, collection, patients, bucket, dbUp))
  /\ UNCHANGED <<created, serverFixed>>

GetResources ==
  /\ Listening
  /\ \E h \in Headers :
        /\ Authenticated(h)
        /\ Respond(Request(h, authOutcome[h].user, "GET /api/resources", <<>>, <<>>),
                   getResources(userOf(h), collection, patients, bucket, dbUp))
  /\ UNCHANGED <<created, serverFixed>>

PostUpload ==
  /\ Listening
  /\ created.a < MaxResources
  /\ \E h \in Headers, body \in UploadBodies :
        /\ Authenticated(h)
        /\ Respond(Request(h, authOutcome[h].user, "POST /api/upload", <<>>, body),
                   postUpload(userOf(h), body, collection, patients, bucket,
                              created.a, dbUp))
  /\ created' = [created EXCEPT !.a = Len(collection') - Len(collection) + @]
  /\ UNCHANGED serverFixed

PutResource ==
  /\ Listening
  /\ \E h \in Headers, ib \in UpdateRequests :
        LET id   == ib[1]
            body == ib[2]
        IN
        /\ Authenticated(h)
        /\ Respond(Request(h, authOutcome[h].user, "PUT /api/resources/:id", id, body),
                   putResource(userOf(h), id, body, collection, patients, bucket, dbUp))
  /\ UNCHANGED <<created, serverFixed>>

PutResourcePatients ==
  /\ Listening
  /\ \E h \in Headers, ib \in AssignRequests :
        LET id   == ib[1]
            body == ib[2]
        IN
        /\ Authenticated(h)
        /\ Respond(Request(h, authOutcome[h].user, "PUT /api/resources/:id/patients",
                           id, body),
                   putResourcePatients(userOf(h), id, body, collection, patients,
                                       bucket, dbUp))
  /\ UNCHANGED <<created, serverFixed>>

DeleteResource ==
  /\ Listening
  /\ \E h \in Headers, id \in ResourceIds \cup MalformedIds, fileOk \in BOOLEAN :
        /\ Authenticated(h)
        /\ Respond(Request(h, authOutcome[h].user, "DELETE /api/resources/:id", id, <<>>),
                   deleteResource(userOf(h), id, collection, patients, bucket, dbUp,
                                  fileOk))
  /\ UNCHANGED <<created, serverFixed>>

PostUploadFile ==
  /\ Listening
  /\ created.c < MaxFiles
  /\ \E h \in Headers, file \in UploadFiles, enrich \in Enrichments :
        /\ Authenticated(h)
        /\ Respond(Request(h, authOutcome[h].user, "POST /api/upload-file", <<>>, file),
                   postUploadFile(userOf(h), file, collection, patients, bucket,
                                  created.c, apiKey, dbUp, enrich))
  /\ created' = [created EXCEPT !.c = Cardinality(bucket') - Cardinality(bucket) + @]
  /\ UNCHANGED serverFixed

GetFile ==
  /\ Listening
  /\ \E h \in Headers, id \in FileIds \cup MalformedIds :
        /\ Authenticated(h)
        /\ Respond(Request(h, authOutcome[h].user, "GET /api/files/:id", id, <<>>),
                   getFile(userOf(h), id, collection, patients, bucket, dbUp))
  /\ UNCHANGED <<created, serverFixed>>

PostChat ==
  /\ Listening
  /\ \E h \in Headers, bg \in ChatRequests :
        LET body == bg[1]
            gen  == bg[2]
        IN
        /\ Authenticated(h)
        /\ Respond(Request(h, authOutcome[h].user, "POST /api/chat", <<>>, body),
                   postChat(userOf(h), body, collection, patients, bucket, apiKey,
                            dbUp, gen))
  /\ UNCHANGED <<created, serverFixed>>

\* The response was sent and the server waits for the next request.
EndRequest ==
  /\ ~Listening
  /\ srvReq' = NoRequest
  /\ srvRes' = NoReply
  /\ srvOps' = <<>>
  /\ UNCHANGED <<collection, patients, bucket, created, serverFixed>>

ServerNext ==
  \/ RejectUnauthenticated
  \/ GetPatients
  \/ PostPatients
  \/ DeletePatient
  \/ GetResources
  \/ PostUpload
  \/ PutResource
  \/ PutResourcePatients
  \/ DeleteResource
  \/ PostUploadFile
  \/ GetFile
  \/ PostChat
  \/ EndRequest

SpecServer == ServerInit /\ [][ServerNext]_vars

----------------------------------------------------------------------------
(* POST /api/upload and PUT /api/resources/:id by one user, with bodies     *)
(* that carry titles and tags.                                              *)

\* tags of a body: none, an array that names "s" twice, the string "a, a".
TagInputs ==
  { NoTags,
    [kind |-> "array", value |-> << <<"s">>, <<"s">> >>],
    [kind |-> "string", value |-> <<"a",","," ","a">>] }

TagTitles == { <<"S","s">>, <<"e","1">> }

TagUploadBodies ==
  { [title |-> <<t>>, description |-> << <<"d">> >>, tags |-> g, fileId |-> <<>>] :
      t \in TagTitles, g \in TagInputs }

\* The title is absent, "" or a new title.
TagUpdateBodies ==
  { [title |-> t, description |-> <<>>, tags |-> g, fileId |-> <<>>,
     patientIds |-> NoPatientIds] :
      t \in { <<>>, << <<>> >> } \cup { <<x>> : x \in TagTitles }, g \in TagInputs }

TagsInit ==
  /\ NotesIdle
  /\ ScoreIdle
  /\ ChatIdle
  /\ ServerIdle
  /\ TextIdle
  /\ ClientIdle
  /\ DbIdle

CreateResource ==
  /\ created.a < MaxResources
  /\ \E body \in TagUploadBodies :
        Respond(Request(HeaderTherapist, authOutcome[HeaderTherapist].user,
                        "POST /api/upload", <<>>, body),
                postUpload(userOf(HeaderTherapist), body, collection, patients,
                           bucket, created.a, dbUp))
  /\ created' = [created EXCEPT !.a = Len(collection') - Len(collection) + @]
  /\ UNCHANGED serverFixed

UpdateResource ==
  /\ \E id \in ResourceIds, body \in TagUpdateBodies :
        Respond(Request(HeaderTherapist, authOutcome[HeaderTherapist].user,
                        "PUT /api/resources/:id", <<id>>, body),
                putResource(userOf(HeaderTherapist), id, body, collection, patients,
                            bucket, dbUp))
  /\ UNCHANGED <<created, serverFixed>>

TagsNext == CreateResource \/ UpdateResource

SpecTags == TagsInit /\ [][TagsNext]_vars

----------------------------------------------------------------------------
(* The patients of one user: the user creates resources and patients,       *)
(* deletes patients, and writes patientIds through both PUT routes.         *)

PatientsInit ==
  /\ NotesIdle
  /\ ScoreIdle
  /\ ChatIdle
  /\ ServerIdle
  /\ TextIdle
  /\ ClientIdle
  /\ DbIdle

AddResource ==
  /\ created.a < MaxResources
  /\ \E body \in UploadBodies :
        Respond(Request(HeaderTherapist, authOutcome[HeaderTherapist].user,
                        "POST /api/upload", <<>>, body),
                postUpload(userOf(HeaderTherapist), body, collection, patients,
                           bucket, created.a, dbUp))
  /\ created' = [created EXCEPT !.a = Len(collection') - Len(collection) + @]
  /\ UNCHANGED serverFixed

AddPatient ==
  /\ created.b < MaxPatients
  /\ \E body \in PatientBodies :
        Respond(Request(HeaderTherapist, authOutcome[HeaderTherapist].user,
                        "POST /api/patients", <<>>, body),
                postPatients(userOf(HeaderTherapist), body, collection, patients,
                             bucket, created.b, dbUp))
  /\ created' = [created EXCEPT !.b = Len(patients') - Len(patients) + @]
  /\ UNCHANGED serverFixed

RemovePatient ==
  /\ \E id \in PatientIds :
        Respond(Request(HeaderTherapist, authOutcome[HeaderTherapist].user,
                        "DELETE /api/patients/:id", id, <<>>),
                deletePatient(userOf(HeaderTherapist), id, collection, patients,
                              bucket, dbUp))
  /\ UNCHANGED <<created, serverFixed>>

AssignPatients ==
  /\ \E id \in ResourceIds, body \in AssignBodies :
        Respond(Request(HeaderTherapist, authOutcome[HeaderTherapist].user,
                        "PUT /api/resources/:id/patients", id, body),
                putResourcePatients(userOf(HeaderTherapist), id, body, collection,
                                    patients, bucket, dbUp))
  /\ UNCHANGED <<created, serverFixed>>

ReviseResource ==
  /\ \E id \in ResourceIds, body \in UpdateBodies :
        Respond(Request(HeaderTherapist, authOutcome[HeaderTherapist].user,
                        "PUT /api/resources/:id", id, body),
                putResource(userOf(HeaderTherapist), id, body, collection, patients,
                            bucket, dbUp))
  /\ UNCHANGED <<created, serverFixed>>

PatientsNext ==
  \/ AddResource
  \/ AddPatient
  \/ RemovePatient
  \/ AssignPatients
  \/ ReviseResource

SpecPatients == PatientsInit /\ [][PatientsNext]_vars

----------------------------------------------------------------------------
(* The client's optimistic delete with undo: handleDelete of App.tsx        *)
(* (lines 2280-2383), one flow per resource of the library.                 *)

MaxLibrary == 2

LibraryIds == 1..MaxLibrary

\* library.filter((r) => r.id !== id)
withoutId(lib, id) == SelectSeq(lib, LAMBDA r : r # id)

\* [resource, ...prev]
restored(lib, id) == <<id>> \o lib

clientFixed == <<scoreVars, noteVars, chatVars, serverVars, textVars, dbVars>>

\* The library was loaded: it shows what the server stores, and no delete
\* was asked for.
UndoInit ==
  /\ NotesIdle
  /\ ScoreIdle
  /\ ChatIdle
  /\ ServerIdle
  /\ TextIdle
  /\ DbIdle
  /\ \E n \in 1..MaxLibrary :
        /\ library = [i \in 1..n |-> i]
        /\ remote = 1..n
  /\ timer = [id \in LibraryIds |-> "none"]
  /\ deleteTimers = [id \in LibraryIds |-> FALSE]
  /\ request = [id \in LibraryIds |-> "none"]
  /\ toast = [id \in LibraryIds |-> "none"]

\* Lines 2280-2383: the signed-in user deletes a resource the library
\* shows, each resource once.  It leaves the library at once, the timer is
\* armed and kept in deleteTimers, and the toast with the Undo button is
\* shown.
HandleDelete ==
  \E id \in LibraryIds :
     /\ \E i \in DOMAIN library : library[i] = id
     /\ timer[id] = "none"
     /\ library' = withoutId(library, id)
     /\ timer' = [timer EXCEPT ![id] = "armed"]
     /\ deleteTimers' = [deleteTimers EXCEPT ![id] = TRUE]
     /\ toast' = [toast EXCEPT ![id] = "shown"]
     /\ UNCHANGED <<remote, request, clientFixed>>

\* Lines 2330-2334: 3.5 s have passed; the callback sends the DELETE request
\* and awaits it.
TimerFires ==
  \E id \in LibraryIds :
     /\ timer[id] = "armed"
     /\ timer' = [timer EXCEPT ![id] = "fired"]
     /\ request' = [request EXCEPT ![id] = "sent"]
     /\ UNCHANGED <<library, remote, deleteTimers, toast, clientFixed>>

\* Lines 2335-2338: the server deleted the resource and answered 204.
DeleteCompletes ==
  \E id \in LibraryIds :
     /\ request[id] = "sent"
     /\ remote' = remote \ {id}
     /\ request' = [request EXCEPT ![id] = "ok"]
     /\ deleteTimers' = [deleteTimers EXCEPT ![id] = FALSE]
     /\ UNCHANGED <<library, timer, toast, clientFixed>>

\* Lines 2335-2357: the request failed or the answer was not ok; the server
\* keeps the resource and the catch puts it back into the library.
DeleteFails ==
  \E id \in LibraryIds :
     /\ request[id] = "sent"
     /\ request' = [request EXCEPT ![id] = "failed"]
     /\ library' = restored(library, id)
     /\ UNCHANGED <<remote, timer, deleteTimers, toast, clientFixed>>

\* Lines 2303-2326: the user presses Undo on the toast.  A timer found in
\* deleteTimers is cleared, which stops it when it has not fired yet; the
\* resource is put back into the library and the toast dismissed.
UndoDelete ==
  \E id \in LibraryIds :
     /\ toast[id] = "shown"
     /\ timer' = [timer EXCEPT ![id] =
                    IF deleteTimers[id] /\ timer[id] = "armed" THEN "cleared" ELSE @]
     /\ deleteTimers' = [deleteTimers EXCEPT ![id] = FALSE]
     /\ library' = restored(library, id)
     /\ toast' = [toast EXCEPT ![id] = "dismissed"]
     /\ UNCHANGED <<remote, request, clientFixed>>

\* Line 2382: the toast leaves after its duration of 3.5 s, which starts
\* after the timer was armed and is paused while the pointer is on it.
ToastExpires ==
  \E id \in LibraryIds :
     /\ toast[id] = "shown"
     /\ timer[id] = "fired"
     /\ toast' = [toast EXCEPT ![id] = "expired"]
     /\ UNCHANGED <<library, remote, timer, deleteTimers, request, clientFixed>>

UndoNext ==
  \/ HandleDelete
  \/ TimerFires
  \/ DeleteCompletes
  \/ DeleteFails
  \/ UndoDelete
  \/ ToastExpires

SpecUndo == UndoInit /\ [][UndoNext]_vars

----------------------------------------------------------------------------
(* The database connection of db.ts: concurrent callers of getDb (lines    *)
(* 15-26), getUploadsBucket (38-43) and one call of closeDb (45-52), each  *)
(* run from one await to the next.                                          *)

MaxCallers == 3

Callers == 1..MaxCallers

dbFixed == <<scoreVars, noteVars, chatVars, serverVars, textVars, clientVars>>

DbInit ==
  /\ NotesIdle
  /\ ScoreIdle
  /\ ChatIdle
  /\ ServerIdle
  /\ TextIdle
  /\ ClientIdle
  /\ mongoUri \in BOOLEAN
  /\ client = <<>>
  /\ db = <<>>
  /\ uploadsBucket = <<>>
  /\ clientState = <<>>
  /\ callPc = [c \in Callers |-> "idle"]
  /\ callClient = [c \in Callers |-> 0]
  /\ callResult = [c \in Callers |-> <<>>]
  /\ closePc = "idle"
  /\ closeClient = 0

\* Lines 16-23: getDb up to its await.  A set db is returned at once; a
\* missing MONGODB_URI throws; otherwise a MongoClient is constructed,
\* assigned to client, and its connect() awaited.
GetDbCalled ==
  \E c \in Callers :
     /\ callPc[c] = "idle"
     /\ IF db # <<>>
          THEN /\ callPc' = [callPc EXCEPT ![c] = "returned"]
               /\ callResult' = [callResult EXCEPT ![c] = db]
               /\ UNCHANGED <<client, clientState, callClient>>
          ELSE IF ~mongoUri
            THEN /\ callPc' = [callPc EXCEPT ![c] = "threw"]
                 /\ UNCHANGED <<client, clientState, callClient, callResult>>
            ELSE /\ clientState' = Append(clientState, "connecting")
                 /\ client' = <<Len(clientState) + 1>>
                 /\ callClient' = [callClient EXCEPT ![c] = Len(clientState) + 1]
                 /\ callPc' = [callPc EXCEPT ![c] = "connecting"]
                 /\ UNCHANGED callResult
     /\ UNCHANGED <<mongoUri, db, uploadsBucket, closePc, closeClient, dbFixed>>

\* Lines 23-25: the awaited connect() resolved; db becomes a new handle of
\* whatever client holds by now (client.db throws when closeDb has reset it).
ConnectResolves ==
  \E c \in Callers :
     /\ callPc[c] = "connecting"
     /\ clientState' = [clientState EXCEPT ![callClient[c]] =
                          IF @ = "connecting" THEN "connected" ELSE @]
     /\ IF client = <<>>
          THEN /\ callPc' = [callPc EXCEPT ![c] = "threw"]
               /\ UNCHANGED <<db, callResult>>
          ELSE /\ db' = << [client |-> client[1], madeBy |-> c] >>
               /\ callResult' = [callResult EXCEPT ![c] = db']
               /\ callPc' = [callPc EXCEPT ![c] = "returned"]
     /\ UNCHANGED <<mongoUri, client, uploadsBucket, callClient, closePc, closeClient,
                    dbFixed>>

\* Line 23: the awaited connect() rejected; getDb throws.
ConnectRejects ==
  \E c \in Callers :
     /\ callPc[c] = "connecting"
     /\ clientState' = [clientState EXCEPT ![callClient[c]] =
                          IF @ = "connecting" THEN "failed" ELSE @]
     /\ callPc' = [callPc EXCEPT ![c] = "threw"]
     /\ UNCHANGED <<mongoUri, client, db, uploadsBucket, callClient, callResult,
                    closePc, closeClient, dbFixed>>

\* Lines 38-43 with db set: getDb resolves with db and the bucket is made
\* from it.
GetUploadsBucket ==
  /\ db # <<>>
  /\ uploadsBucket = <<>>
  /\ uploadsBucket' = db
  /\ UNCHANGED <<mongoUri, client, db, clientState, callPc, callClient, callResult,
                 closePc, closeClient, dbFixed>>

\* Lines 46-47: closeDb is called; with a client it awaits client.close().
CloseDbCalled ==
  /\ closePc = "idle"
  /\ IF client = <<>>
       THEN closePc' = "returned" /\ UNCHANGED closeClient
       ELSE closePc' = "closing" /\ closeClient' = client[1]
  /\ UNCHANGED <<mongoUri, client, db, uploadsBucket, clientState, callPc, callClient,
                 callResult, dbFixed>>

\* Lines 47-50: close() resolved and the three module variables are reset.
CloseResolves ==
  /\ closePc = "closing"
  /\ clientState' = [clientState EXCEPT ![closeClient] = "closed"]
  /\ client' = <<>>
  /\ db' = <<>>
  /\ uploadsBucket' = <<>>
  /\ closePc' = "returned"
  /\ UNCHANGED <<mongoUri, callPc, callClient, callResult, closeClient, dbFixed>>

DbNext ==
  \/ GetDbCalled
  \/ ConnectResolves
  \/ ConnectRejects
  \/ GetUploadsBucket
  \/ CloseDbCalled
  \/ CloseResolves

SpecDb == DbInit /\ [][DbNext]_vars

----------------------------------------------------------------------------
(* The text functions tokenize, stem and deriveLetterTags (index.ts 74-86, *)
(* 106-110), each applied to one string.                                    *)

MaxText == 4

\* An upper and a lower case letter, the letters of the suffix rules, a
\* digit and a separator.
TextAlphabet == {"S", "s", "e", "i", "1", " "}

\* The examples of the stemmer and of the tag deriver.
TextExamples ==
  { <<"p","u","p","p","i","e","s">>, <<"b","o","x","e","s">>, Str_cats,
    <<"i","s">>, <<"S","s">> }

TextInputs ==
  UNION { [1..n -> TextAlphabet] : n \in 0..MaxText } \cup TextExamples

TextInit ==
  /\ ClientIdle
  /\ DbIdle
  /\ NotesIdle
  /\ ChatIdle
  /\ ServerIdle
  /\ ScoreIdle
  /\ textFn = "idle"
  /\ textIn \in TextInputs
  /\ textOut = <<>>

ApplyTokenize ==
  /\ textFn' = "tokenize"
  /\ textOut' = tokenize(textIn)
  /\ UNCHANGED <<textIn, scoreVars, noteVars, chatVars, serverVars, clientVars, dbVars>>

ApplyStem ==
  /\ textFn' = "stem"
  /\ textOut' = stem(textIn)
  /\ UNCHANGED <<textIn, scoreVars, noteVars, chatVars, serverVars, clientVars, dbVars>>

ApplyDeriveLetterTags ==
  /\ textFn' = "deriveLetterTags"
  /\ textOut' = deriveLetterTags(textIn)
  /\ UNCHANGED <<textIn, scoreVars, noteVars, chatVars, serverVars, clientVars, dbVars>>

TextNext == ApplyTokenize \/ ApplyStem \/ ApplyDeriveLetterTags

SpecText == TextInit /\ [][TextNext]_vars

----------------------------------------------------------------------------
(* Properties of scoreResources, stated over SpecScore.                     *)

\* The call under study has returned.
Called == phase # "start"

\* Positions of the input array whose resource scored more than 0.
PositiveInputs == {k \in DOMAIN lastScored : lastScored[k].score > 0}

\* The input position of the resource at shortlist position i, and its score.
InputIndex(i) == CHOOSE k \in DOMAIN argList : argList[k] = shortlist[i]

ShortScore(i) == lastScored[InputIndex(i)].score

\* Shortlist positions holding the resource of input position k.
PlacesOf(k) == {i \in DOMAIN shortlist : shortlist[i] = argList[k]}

QueryHasNoToken == \A i \in DOMAIN argQuery : ~IsTokenChar(toLowerChar(argQuery[i]))

\* C1: a query without any token (empty, blank, punctuation only) yields the
\* empty shortlist, whatever the resource list holds.
C1_EmptyQueryEmptyShortlist ==
  (Called /\ QueryHasNoToken) => shortlist = <<>>

\* A punctuation-only query was scored against a list holding a resource
\* whose corpus contains the query string.
C1_Witness ==
  /\ Called
  /\ QueryHasNoToken
  /\ argQuery # <<>>
  /\ \E k \in DOMAIN argList :
        includes(toLowerCase(corpusOf(argList[k])), toLowerCase(argQuery))
  /\ shortlist = <<>>

\* C2: the shortlist has at most 5 entries, each an input resource taken at
\* most once, in non-increasing score order; no positive-scoring resource
\* left out scores strictly higher than one kept; with more than 5
\* positive-scoring resources it has exactly 5 entries.
C2_TopFiveByScore ==
  Called =>
    /\ Len(shortlist) <= 5
    /\ \A i \in DOMAIN shortlist : \E k \in DOMAIN argList : argList[k] = shortlist[i]
    /\ \A k \in DOMAIN argList : Cardinality(PlacesOf(k)) <= 1
    /\ \A i \in DOMAIN shortlist :
          i < Len(shortlist) => ShortScore(i) >= ShortScore(i + 1)
    /\ \A k \in PositiveInputs :
          PlacesOf(k) = {} =>
            \A i \in DOMAIN shortlist : lastScored[k].score <= ShortScore(i)
    /\ Cardinality(PositiveInputs) > 5 => Len(shortlist) = 5

\* More than five resources matched with differing scores, and a lower
\* scoring match was cut.
C2_Witness ==
  /\ Called
  /\ Cardinality(PositiveInputs) > 5
  /\ Len(shortlist) = 5
  /\ ShortScore(1) > ShortScore(5)
  /\ \E k \in PositiveInputs :
        PlacesOf(k) = {} /\ lastScored[k].score < ShortScore(1)

\* C3: every shortlisted resource scored more than 0, also when fewer than 5
\* resources match.
C3_OnlyPositiveScores ==
  Called => \A i \in DOMAIN shortlist : ShortScore(i) > 0

\* Fewer than five resources matched and the list also held a resource
\* scoring 0.
C3_Witness ==
  /\ Called
  /\ shortlist # <<>>
  /\ Len(shortlist) < 5
  /\ \E k \in DOMAIN lastScored : lastScored[k].score = 0

\* C4: of two resources with equal positive score the earlier of the input
\* list comes first in the shortlist, and if the cut to 5 drops one of them
\* it drops the later one.
C4_StableTieBreak ==
  Called =>
    \A a, b \in PositiveInputs :
       (a < b /\ lastScored[a].score = lastScored[b].score /\ PlacesOf(b) # {}) =>
          \E i \in PlacesOf(a) : \A j \in PlacesOf(b) : i < j

\* Two tied resources were both kept behind a higher-scoring resource that
\* stood after them in the input, and a third resource tied with them was cut.
C4_Witness ==
  /\ Called
  /\ \E a, b, c \in PositiveInputs :
        /\ a < b /\ b < c
        /\ lastScored[a].score = lastScored[b].score
        /\ lastScored[b].score = lastScored[c].score
        /\ PlacesOf(a) # {} /\ PlacesOf(b) # {} /\ PlacesOf(c) = {}
        /\ \E h \in PositiveInputs :
              /\ h > b
              /\ lastScored[h].score > lastScored[a].score
              /\ \E i \in PlacesOf(h) : \A j \in PlacesOf(a) : i < j

\* The four signals of a resource for a query, each counted over the
\* occurrences of the query's tokens.
ExactOccurrences(qt, rt) ==
  Cardinality({i \in DOMAIN qt : \E j \in DOMAIN rt : rt[j] = qt[i]})

StemOccurrences(qt, rt) ==
  Cardinality({i \in DOMAIN qt : \E j \in DOMAIN rt : stem(rt[j]) = stem(qt[i])})

TagOccurrences(qt, tags) ==
  Cardinality({i \in DOMAIN qt :
                 \E j \in DOMAIN tags : includes(toLowerCase(tags[j]), qt[i])})

PhraseOccurs(q, r) == includes(toLowerCase(corpusOf(r)), toLowerCase(q))

ExpectedScore(q, r) ==
  LET qt == tokenize(q)
      rt == tokenize(corpusOf(r))
  IN  2 * ExactOccurrences(qt, rt) + StemOccurrences(qt, rt)
        + TagOccurrences(qt, r.tags) + (IF PhraseOccurs(q, r) THEN 1 ELSE 0)

\* C5: the score of a resource is 2 per query token occurrence in the raw
\* corpus token set, plus 1 per occurrence whose stem is in the corpus stem
\* set, plus 1 per occurrence contained in at least one lowercased stored tag
\* (once per occurrence, not per tag), plus 1 if the lowercased query occurs
\* in the lowercased corpus.
C5_ScoreIsWeightedSum ==
  Called =>
    \A k \in DOMAIN lastScored :
       lastScored[k].score = ExpectedScore(argQuery, argList[k])

\* A resource was scored on all four signals at once, with a query token
\* contained in two of its stored tags.
C5_Witness ==
  /\ Called
  /\ \E k \in DOMAIN lastScored :
        LET r  == argList[k]
            qt == tokenize(argQuery)
            rt == tokenize(corpusOf(r))
        IN  /\ ExactOccurrences(qt, rt) > 0
            /\ StemOccurrences(qt, rt) > 0
            /\ PhraseOccurs(argQuery, r)
            /\ \E i \in DOMAIN qt :
                  Cardinality({j \in DOMAIN r.tags :
                                 includes(toLowerCase(r.tags[j]), qt[i])}) > 1
            /\ lastScored[k].score = 5

InsertAt(xs, p, ys) == SubSeq(xs, 1, p) \o ys \o SubSeq(xs, p + 1, Len(xs))

\* r2 is r with the token tok added to its corpus and nothing else changed:
\* same title, the stored tags the same or with tok as one more tag, the
\* corpus string of r2 that of r with tok put in (with a separating space),
\* the corpus tokens of r2 those of r with tok as one more token; and tok is
\* not among the corpus tokens of r.
AddsToken(r, r2, tok) ==
  LET c  == corpusOf(r)
      c2 == corpusOf(r2)
      t  == tokenize(c)
  IN  /\ r2.title = r.title
      /\ Len(c2) > Len(c)
      /\ \/ r2.tags = r.tags
         \/ \E p \in 0..Len(r.tags) : r2.tags = InsertAt(r.tags, p, <<tok>>)
      /\ tok \notin Range(t)
      /\ \E p \in 0..Len(c) :
            \E ins \in {tok, tok \o Space, Space \o tok} : c2 = InsertAt(c, p, ins)
      /\ \E p \in 0..Len(t) : tokenize(c2) = InsertAt(t, p, <<tok>>)

\* Adding the token took the query string out of the corpus.
PhraseLost(r, r2) == PhraseOccurs(argQuery, r) /\ ~PhraseOccurs(argQuery, r2)

\* C6 as stated: a resource whose corpus additionally contains a query token
\* scores at least 2 more than the otherwise identical resource without it.
C6_AddedTokenGainsTwo ==
  Called =>
    \A a, b \in DOMAIN lastScored :
       \A tok \in Range(tokenize(argQuery)) :
          AddsToken(argList[a], argList[b], tok) =>
             lastScored[b].score >= lastScored[a].score + 2

\* C6 amended: the resource with the added query token scores at least 2
\* more, unless adding the token takes the lowercased query string out of the
\* corpus (the full-phrase bonus is lost), and then it scores at least 1 more.
C6_AddedTokenGainsTwoUnlessPhraseLost ==
  Called =>
    \A a, b \in DOMAIN lastScored :
       \A tok \in Range(tokenize(argQuery)) :
          AddsToken(argList[a], argList[b], tok) =>
             lastScored[b].score >=
               lastScored[a].score + (IF PhraseLost(argList[a], argList[b]) THEN 1 ELSE 2)

\* A list held a resource and the same resource with a query token added at
\* the end of its corpus, the phrase bonus kept, and the scores 2 apart; and
\* a list held a pair where the added token broke the phrase.
C6_Witness ==
  /\ Called
  /\ \E a, b \in DOMAIN lastScored :
        \E tok \in Range(tokenize(argQuery)) :
           /\ AddsToken(argList[a], argList[b], tok)
           /\ PhraseOccurs(argQuery, argList[a])
           /\ ~PhraseLost(argList[a], argList[b])
           /\ lastScored[b].score = lastScored[a].score + 2

----------------------------------------------------------------------------
(* Properties of buildResourceNotes, stated over SpecNotes.                 *)

\* The text the completion carried ("" for a null content).
OutputText == IF genOutput = <<>> THEN <<>> ELSE genOutput[1]

Newlines(text) == {i \in DOMAIN text : text[i] = "\n"}

LineCount(text) == Cardinality(Newlines(text)) + 1

\* The k-th line of text: what stands between the (k-1)-th and the k-th
\* line break.
LineOf(text, k) ==
  LET nl    == Newlines(text)
      from  == CHOOSE p \in nl \cup {0} :
                 Cardinality({q \in nl : q <= p}) = k - 1
      until == CHOOSE p \in nl \cup {Len(text) + 1} :
                 Cardinality({q \in nl : q < p}) = k - 1
  IN  SubSeq(text, from + 1, until - 1)

\* l without the blanks at its two ends.
Trimmed(l) ==
  LET solid == {i \in DOMAIN l : l[i] \notin Whitespace}
  IN  IF solid = {} THEN <<>>
      ELSE SubSeq(l, CHOOSE i \in solid : \A j \in solid : i <= j,
                     CHOOSE i \in solid : \A j \in solid : j <= i)

\* The pairs <<a, b>> such that l starts with a blanks, then the digits
\* l[a+1..b], then a closing parenthesis.
NumberPrefixes(l) ==
  {ab \in (0..Len(l)) \X (1..Len(l)) :
     /\ ab[1] < ab[2]
     /\ ab[2] < Len(l)
     /\ \A i \in 1..ab[1] : l[i] \in Whitespace
     /\ \A i \in (ab[1] + 1)..ab[2] : l[i] \in Digits
     /\ l[ab[2] + 1] = ")"}

\* The line without its "<digits>)" prefix, trimmed.
Sentence(l) ==
  IF NumberPrefixes(l) = {} THEN Trimmed(l)
  ELSE LET ab == CHOOSE x \in NumberPrefixes(l) : TRUE
       IN  Trimmed(SubSeq(l, ab[2] + 2, Len(l)))

\* The lines of text that are not blank once stripped and trimmed.
SolidLines(text) == {k \in 1..LineCount(text) : Sentence(LineOf(text, k)) # <<>>}

\* The line of text the i-th of them is (0 when there are fewer than i).
SourceLine(text, i) ==
  IF Cardinality(SolidLines(text)) < i THEN 0
  ELSE CHOOSE k \in SolidLines(text) :
         Cardinality({j \in SolidLines(text) : j <= k}) = i

\* C8: for a non-empty shortlist of n resources the call returns n strings;
\* string i is the i-th of the lines that are non-blank after the "<digits>)"
\* prefix is stripped and the line trimmed, and "" when there are fewer than
\* i such lines.
C8_NotesAreCleanedLinesInOrder ==
  (notePc = "returned" /\ noteResources # <<>>) =>
    /\ Len(notes) = Len(noteResources)
    /\ \A i \in DOMAIN notes :
          notes[i] = IF SourceLine(OutputText, i) = 0 THEN <<>>
                     ELSE Sentence(LineOf(OutputText, SourceLine(OutputText, i)))

\* A shortlist of 3 got a completion of two numbered lines with a blank line
\* between them: two notes and an empty third one.
C8_Witness ==
  /\ notePc = "returned"
  /\ Len(noteResources) = 3
  /\ LineCount(OutputText) = 3
  /\ Cardinality(SolidLines(OutputText)) = 2
  /\ NumberPrefixes(LineOf(OutputText, 1)) # {}
  /\ notes[1] # <<>> /\ notes[2] # <<>> /\ notes[3] = <<>>

RECURSIVE DigitsValue(_)
DigitsValue(ds) ==
  IF ds = <<>> THEN 0
  ELSE 10 * DigitsValue(SubSeq(ds, 1, Len(ds) - 1))
         + (CHOOSE n \in 0..9 : DigitSeq[n + 1] = ds[Len(ds)])

\* The numbers a line is numbered with: none, or the one of its prefix.
LineNumbers(l) == {DigitsValue(SubSeq(l, ab[1] + 1, ab[2])) : ab \in NumberPrefixes(l)}

\* C9: the note attached to shortlist position i is "" or comes from the
\* line the generator numbered i: never from a line numbered for another
\* position (lines without a number are let through here).
C9_NotesKeepTheirPosition ==
  notePc = "returned" =>
    \A i \in DOMAIN notes :
       notes[i] # <<>> =>
         \A n \in LineNumbers(LineOf(OutputText, SourceLine(OutputText, i))) : n = i

----------------------------------------------------------------------------
(* Properties of POST /api/chat, stated over Spec.                          *)

\* The request was answered after its note generation failed.
NoteGenerationFailed ==
  /\ chatPc = "responded"
  /\ genLog # <<>>
  /\ genLog[Len(genLog)].kind = "notes"
  /\ genLog[Len(genLog)].outcome = "failed"

\* C10: when retrieval and reply generation succeeded and the note
\* generation fails, the request succeeds with the generated reply and the
\* same shortlist in the same order, every resource as it is stored (no
\* insight of this request on it).
C10_NoteFailureKeepsShortlist ==
  NoteGenerationFailed =>
    /\ response.status = 200
    /\ response.error = ""
    /\ response.fallback = <<>>
    /\ response.reply = aiMessage
    /\ response.resources = topMatches
    /\ \A i \in DOMAIN response.resources :
          \E k \in DOMAIN collection : collection[k] = response.resources[i]

\* The note generation failed for a shortlist of two, the first of them with
\* a stored insight.
C10_Witness ==
  /\ NoteGenerationFailed
  /\ genLog[1].kind = "reply" /\ genLog[1].outcome = "ok"
  /\ Len(topMatches) = 2
  /\ topMatches[1].insight # <<>>
  /\ response.reply = "Try the S cards."

\* The request passed the validation of line 578 and found no credentials
\* for the text generator (line 582).
CredentialsMissing ==
  /\ chatPc = "responded"
  /\ chatReq.message # <<>>
  /\ chatReq.message[1] # <<>>
  /\ ~apiKey

\* The request was answered after its reply completion rejected.
ReplyGenerationFailed ==
  /\ chatPc = "responded"
  /\ genLog # <<>>
  /\ genLog[Len(genLog)].kind = "reply"
  /\ genLog[Len(genLog)].outcome = "failed"

\* C11: when the text generator is unavailable on the chat path (credentials
\* missing, or the reply completion fails), the response carries a fallback
\* with a reply message and an empty resource list.
C11_UnavailableGeneratorCarriesFallback ==
  (CredentialsMissing \/ ReplyGenerationFailed) =>
    /\ response.fallback # <<>>
    /\ response.fallback[1].reply # ""
    /\ response.fallback[1].resources = <<>>

----------------------------------------------------------------------------
(* Properties of the routes under /api, stated over SpecServer.             *)

\* A request was answered and its response not yet sent off.
Answered == srvReq # NoRequest

\* The documents a response carries: those of data, and the resources of a
\* chat reply.
ReturnedDocs(res) ==
  Range(res.data)
    \cup (IF res.chat = <<>> THEN {} ELSE Range(res.chat[1].resources))

\* Every document of docs that owner does not own is among after, as it was.
OthersKept(docs, after, owner) ==
  \A i \in DOMAIN docs :
     docs[i].ownerId # owner => \E j \in DOMAIN after : after[j] = docs[i]

\* C12: a request authenticated as user U is answered with resource and
\* patient records owned by U only (lists, chat shortlist, updated record),
\* and every resource and patient record owned by another user is in the
\* stores after the request exactly as it was before.
C12_RecordsIsolated ==
  [][ (srvReq' # NoRequest /\ srvReq'.user # <<>>) =>
        LET owner == srvReq'.user[1].sub
        IN  /\ \A d \in ReturnedDocs(srvRes') : d.ownerId = owner
            /\ OthersKept(collection, collection', owner)
            /\ OthersKept(patients, patients', owner)
    ]_vars

\* With resources of both users stored, a user's request to update, assign
\* patients to or delete the other user's resource was answered 404.
C12_Witness ==
  /\ Answered
  /\ srvReq.user # <<>>
  /\ \E i, j \in DOMAIN collection : collection[i].ownerId # collection[j].ownerId
  /\ srvReq.route \in {"PUT /api/resources/:id", "PUT /api/resources/:id/patients",
                       "DELETE /api/resources/:id"}
  /\ srvRes.status = 404
  /\ \E i \in DOMAIN collection :
        /\ collection[i].id = srvReq.id
        /\ collection[i].ownerId # srvReq.user[1].sub

\* The files of the bucket that a resource of another user than owner
\* references.
ReferencedByOthers(files, docs, owner) ==
  {f \in files :
     \E i \in DOMAIN docs : docs[i].ownerId # owner /\ docs[i].fileId = <<f.id>>}

\* C13: a user never receives the content of a stored file that another
\* user uploaded, and deleting an own resource never removes a stored file
\* that a resource of another user references.
C13_FilesIsolated ==
  [][ (srvReq' # NoRequest /\ srvReq'.user # <<>>) =>
        LET owner == srvReq'.user[1].sub
        IN  /\ srvRes'.file # <<>> => srvRes'.file[1].uploader = owner
            /\ srvReq'.route = "DELETE /api/resources/:id" =>
                 ReferencedByOthers(bucket, collection, owner) \subseteq bucket'
    ]_vars

\* The headers of the form "Basic <base64 of username:password>" for the
\* username and the password of a configured user.
CredentialHeaders ==
  {h \in Headers :
     /\ h # <<>>
     /\ startsWith(h[1], BasicPrefix)
     /\ \E i \in DOMAIN USERS :
           base64Decode(SubSeq(h[1], Len(BasicPrefix) + 1, Len(h[1])))
             = USERS[i].username \o <<":">> \o USERS[i].password}

\* C14: a request under /api without an Authorization header of the form
\* "Basic <base64 username:password>" for a configured user's username and
\* password is answered 401 and its handler is not run: no storage, scoring
\* or generator call is made for it and the stores stay as they are.
C14_OnlyCredentialsPass ==
  [][ (srvReq' # NoRequest /\ srvReq'.header \notin CredentialHeaders) =>
        /\ srvRes'.status = 401
        /\ srvOps' = <<>>
        /\ UNCHANGED <<collection, patients, bucket>>
    ]_vars

\* The routes that take an identifier from the path.
IdRoutes ==
  { "DELETE /api/patients/:id", "PUT /api/resources/:id",
    "PUT /api/resources/:id/patients", "DELETE /api/resources/:id",
    "GET /api/files/:id" }

\* The request is a chat without message or with the empty message, or
\* names a malformed identifier.
InvalidInput(req) ==
  \/ /\ req.route = "POST /api/chat"
     /\ (req.body.message = <<>> \/ req.body.message[1] = <<>>)
  \/ /\ req.route \in IdRoutes
     /\ req.id \in MalformedIds

\* C15: an authenticated chat request with an empty or missing message, and
\* a resource, patient or file request with a malformed identifier, is
\* answered 400 with an error message, with no storage, scoring or generator
\* call made and the stores left as they are.
C15_ValidationBeforeWork ==
  [][ (srvReq' # NoRequest /\ srvReq'.user # <<>> /\ InvalidInput(srvReq')) =>
        /\ srvRes'.status = 400
        /\ srvRes'.error # ""
        /\ srvOps' = <<>>
        /\ UNCHANGED <<collection, patients, bucket>>
    ]_vars

\* With a resource, a patient and a file stored, a request naming a
\* malformed identifier was answered 400.
C15_Witness ==
  /\ Answered
  /\ srvReq.user # <<>>
  /\ srvReq.route \in IdRoutes
  /\ srvReq.id \in MalformedIds
  /\ collection # <<>> /\ patients # <<>> /\ bucket # {}
  /\ srvRes.status = 400
  /\ srvOps = <<>>

----------------------------------------------------------------------------
(* Properties of the text functions, stated over SpecText.                  *)

\* t ends in the characters of suffix.
EndsIn(t, suffix) ==
  /\ Len(t) >= Len(suffix)
  /\ SubSeq(t, Len(t) - Len(suffix) + 1, Len(t)) = suffix

Suffix_ies == <<"i","e","s">>

Suffix_es == <<"e","s">>

Suffix_s == <<"s">>

\* C16: stem applies its rules in priority order, first match winning: a
\* token of length <= 3 is returned unchanged; otherwise a token ending in
\* "ies" has "ies" replaced by "y"; otherwise one ending in "es" loses "es";
\* otherwise one ending in "s" loses the final "s"; otherwise it is returned
\* unchanged.
C16_StemRulesInPriorityOrder ==
  textFn = "stem" =>
    /\ Len(textIn) <= 3 => textOut = textIn
    /\ (Len(textIn) > 3 /\ EndsIn(textIn, Suffix_ies)) =>
          /\ textIn = SubSeq(textOut, 1, Len(textOut) - 1) \o Suffix_ies
          /\ textOut[Len(textOut)] = "y"
    /\ (Len(textIn) > 3 /\ ~EndsIn(textIn, Suffix_ies) /\ EndsIn(textIn, Suffix_es)) =>
          textIn = textOut \o Suffix_es
    /\ (Len(textIn) > 3 /\ ~EndsIn(textIn, Suffix_es) /\ EndsIn(textIn, Suffix_s)) =>
          textIn = textOut \o Suffix_s
    /\ (Len(textIn) > 3 /\ ~EndsIn(textIn, Suffix_s)) => textOut = textIn
    /\ textIn = <<"b","o","x","e","s">> => textOut = <<"b","o","x">>
    /\ textIn = Str_cats => textOut = Str_cat
    /\ textIn = <<"i","s">> => textOut = <<"i","s">>

\* "puppies" was stemmed to "puppy": the "ies" rule won over "es" and "s".
C16_Witness ==
  /\ textFn = "stem"
  /\ textIn = <<"p","u","p","p","i","e","s">>
  /\ textOut = <<"p","u","p","p","y">>

\* The maximal runs of [a-z0-9] in s, as pairs of first and last position.
TokenRuns(s) ==
  { ab \in (DOMAIN s) \X (DOMAIN s) :
      /\ ab[1] <= ab[2]
      /\ \A i \in ab[1]..ab[2] : s[i] \in LowerSet \cup Digits
      /\ ab[1] = 1 \/ s[ab[1] - 1] \notin LowerSet \cup Digits
      /\ ab[2] = Len(s) \/ s[ab[2] + 1] \notin LowerSet \cup Digits }

\* The run that has n - 1 runs before it.
NthRun(s, n) ==
  CHOOSE ab \in TokenRuns(s) :
     Cardinality({cd \in TokenRuns(s) : cd[1] < ab[1]}) = n - 1

\* C17: tokenize returns, in source order and with duplicates retained,
\* exactly the maximal runs of characters in [a-z0-9] of the lowercased
\* input; every token is non-empty and holds only [a-z0-9]; an empty or
\* all-separator input yields the empty sequence.
C17_TokensAreMaximalRuns ==
  textFn = "tokenize" =>
    LET s == toLowerCase(textIn)
    IN  /\ Len(textOut) = Cardinality(TokenRuns(s))
        /\ \A n \in DOMAIN textOut :
              /\ textOut[n] = SubSeq(s, NthRun(s, n)[1], NthRun(s, n)[2])
              /\ textOut[n] # <<>>
              /\ \A i \in DOMAIN textOut[n] : textOut[n][i] \in LowerSet \cup Digits
        /\ (\A i \in DOMAIN s : s[i] \notin LowerSet \cup Digits) => textOut = <<>>

\* An input that starts with a separator and holds the same word twice, in
\* upper and in lower case, was tokenized.
C17_Witness ==
  /\ textFn = "tokenize"
  /\ textIn = <<" ","S"," ","s">>
  /\ textOut = << <<"s">>, <<"s">> >>

\* The positions where a letter occurs for the first time, case ignored.
FirstLetterAt(text) ==
  { i \in DOMAIN text :
      /\ text[i] \in LowerSet \cup UpperSet
      /\ \A j \in 1..(i - 1) : toLowerChar(text[j]) # toLowerChar(text[i]) }

\* C18: deriveLetterTags returns, for each distinct letter a-z of the title,
\* case ignored and in order of first occurrence, exactly the three tags x,
\* /x/ and letter-x, with no duplicates and nothing for the other
\* characters: 3 entries per distinct letter.
C18_ThreeTagsPerDistinctLetter ==
  textFn = "deriveLetterTags" =>
    /\ Len(textOut) = 3 * Cardinality(FirstLetterAt(textIn))
    /\ \A i \in FirstLetterAt(textIn) :
          LET n == Cardinality({j \in FirstLetterAt(textIn) : j <= i})
              x == toLowerChar(textIn[i])
          IN  /\ textOut[3 * n - 2] = <<x>>
              /\ textOut[3 * n - 1] = <<"/", x, "/">>
              /\ textOut[3 * n] = <<"l","e","t","t","e","r","-", x>>
    /\ \A a, b \in DOMAIN textOut : a # b => textOut[a] # textOut[b]

\* "Ss" yielded exactly s, /s/ and letter-s.
C18_Witness ==
  /\ textFn = "deriveLetterTags"
  /\ textIn = <<"S","s">>
  /\ textOut = << <<"s">>, <<"/","s","/">>, <<"l","e","t","t","e","r","-","s">> >>

----------------------------------------------------------------------------
(* Properties of the corpus and of the exact and stemmed signals.           *)

\* The five parts of a resource's corpus, in their order.
CorpusParts(r) ==
  << r.title, r.description, join(r.tags, <<" ">>),
     join(deriveLetterTags(r.title), <<" ">>),
     IF r.extractedText = <<>> THEN <<>> ELSE r.extractedText[1] >>

ExpectedCorpus(r) ==
  LET f == CorpusParts(r)
  IN  f[1] \o <<" ">> \o f[2] \o <<" ">> \o f[3] \o <<" ">> \o f[4] \o <<" ">> \o f[5]

\* The corpus without the letter-tags.
StoredText(r) ==
  LET f == CorpusParts(r)
  IN  f[1] \o <<" ">> \o f[2] \o <<" ">> \o f[3] \o <<" ">> \o <<" ">> \o f[5]

\* The score of the query against a given corpus string and stored tags.
ScoreOver(q, corpus, tags) ==
  LET qt == tokenize(q)
      rt == tokenize(corpus)
  IN  2 * ExactOccurrences(qt, rt) + StemOccurrences(qt, rt)
        + TagOccurrences(qt, tags)
        + (IF includes(toLowerCase(corpus), toLowerCase(q)) THEN 1 ELSE 0)

\* A call of scoreResources has returned and the list is as it was scored.
Scored == phase \in {"called", "calledAgain", "rescored"}

\* C19: the corpus scored for a resource is title, description, the stored
\* tags, the letter-tags of the title and the extracted text ("" when
\* absent), in this order and separated by spaces; it is rebuilt from the
\* resource's current fields on every call, and the full-phrase check runs
\* over the whole string, letter-tags included.
C19_CorpusInFixedOrderRebuiltPerCall ==
  Scored =>
    \A k \in DOMAIN argList :
       lastScored[k].score
         = ScoreOver(argQuery, ExpectedCorpus(argList[k]), argList[k].tags)

\* After an update of a resource the list was scored again, and the query
\* occurs as a phrase in a resource's corpus only because of the letter-tags.
C19_Witness ==
  /\ phase = "rescored"
  /\ \E k \in DOMAIN argList :
        /\ includes(toLowerCase(ExpectedCorpus(argList[k])), toLowerCase(argQuery))
        /\ ~includes(toLowerCase(StoredText(argList[k])), toLowerCase(argQuery))
        /\ lastScored[k].score > 0

\* What the exact and the stemmed signal add for one query token.
ExactAndStem(tok, rt) ==
  overlap(<<tok>>, Range(rt)) + stemOverlap(<<tok>>, {stem(rt[j]) : j \in DOMAIN rt})

StemMatches(tok, rt) == \E j \in DOMAIN rt : stem(rt[j]) = stem(tok)

\* C20: for every query token and resource, a token of the raw corpus token
\* set has its stem in the corpus stem set, so an exactly matched token adds
\* 3 from the exact and stemmed signals together, a token matched only by
\* stem adds 1, and the two signals never add exactly 2.
C20_ExactOutranksStemOnly ==
  Called =>
    \A k \in DOMAIN argList :
       LET rt == tokenize(corpusOf(argList[k]))
           qt == tokenize(argQuery)
       IN  \A i \in DOMAIN qt :
              /\ qt[i] \in Range(rt) =>
                    (StemMatches(qt[i], rt) /\ ExactAndStem(qt[i], rt) = 3)
              /\ (qt[i] \notin Range(rt) /\ StemMatches(qt[i], rt)) =>
                    ExactAndStem(qt[i], rt) = 1
              /\ ExactAndStem(qt[i], rt) # 2

\* One query token is matched exactly by one resource of the list and only
\* by stem by another, and the first resource has the higher score.
C20_Witness ==
  /\ Called
  /\ \E a, b \in DOMAIN argList :
        LET qt == tokenize(argQuery)
            ra == tokenize(corpusOf(argList[a]))
            rb == tokenize(corpusOf(argList[b]))
        IN  /\ \E i \in DOMAIN qt :
                  /\ qt[i] \in Range(ra)
                  /\ qt[i] \notin Range(rb)
                  /\ StemMatches(qt[i], rb)
            /\ lastScored[a].score > lastScored[b].score

----------------------------------------------------------------------------
(* Further properties of buildResourceNotes, stated over SpecNotes.         *)

\* C21: with an empty shortlist buildResourceNotes returns an empty array
\* and no request is made to the text generator.
C21_EmptyShortlistNoGeneratorCall ==
  noteResources = <<>> =>
    /\ genCalls = 0
    /\ notePc \in {"start", "returned"}
    /\ notePc = "returned" => notes = <<>>

\* The call on an empty shortlist has returned.
C21_Witness ==
  /\ noteResources = <<>>
  /\ notePc = "returned"
  /\ notes = <<>>
  /\ genCalls = 0

----------------------------------------------------------------------------
(* Further properties of POST /api/chat, stated over Spec.                  *)

\* The ranking of the request: the stored resources of the user, scored
\* against the message.
RankingOf(req) == scoreResources(req.message[1], findResources(collection, req.user))

\* C22: within one chat request the steps happen in a fixed order: all
\* resources are scored and ranked before the reply completion is
\* requested, and the note completion is requested only after the reply
\* completion has resolved, with that final shortlist; it is never requested
\* before or during the ranking or while the reply is pending.
C22_StepsInFixedOrder ==
  /\ chatPc \in {"idle", "fetching"} => genLog = <<>>
  /\ genLog # <<>> =>
        /\ genLog[1].kind = "reply"
        /\ genLog[1].resources = RankingOf(chatReq)
        /\ topMatches = RankingOf(chatReq)
  /\ \A i \in DOMAIN genLog :
        genLog[i].kind = "notes" =>
          /\ i = 2
          /\ Len(genLog) = 2
          /\ genLog[1].outcome = "ok"
          /\ chatPc \in {"awaitNotes", "responded"}
          /\ genLog[i].resources = topMatches
          /\ topMatches # <<>>

\* A request went through all steps: ranking, reply completion, note
\* completion on the shortlist, response.
C22_Witness ==
  /\ chatPc = "responded"
  /\ response.status = 200
  /\ Len(genLog) = 2
  /\ genLog[2].kind = "notes"
  /\ genLog[2].outcome = "ok"
  /\ Len(genLog[2].resources) >= 2

\* C23: retrieval is driven by the latest message only: the same user, the
\* same stored resources and the same message give the same shortlist,
\* resources and order, whatever the history; the history goes to the reply
\* completion and nowhere else.
C23_HistoryLeavesShortlistAlone ==
  genLog # <<>> =>
    /\ \A h \in ChatHistories :
          retrieve([chatReq EXCEPT !.history = h], collection) = topMatches
    /\ genLog[1].history = chatReq.history
    /\ \A i \in DOMAIN genLog : genLog[i].kind = "notes" => genLog[i].history = <<>>

\* A request with earlier turns was answered with a non-empty shortlist.
C23_Witness ==
  /\ chatPc = "responded"
  /\ response.status = 200
  /\ chatReq.history # <<>>
  /\ genLog[1].history = chatReq.history
  /\ topMatches # <<>>

----------------------------------------------------------------------------
(* Further properties of the routes under /api, stated over SpecServer.     *)

IdsOf(docs) == [i \in DOMAIN docs |-> docs[i].id]

\* A chat request was answered with a reply and a shortlist.
ChatAnswered ==
  /\ srvReq.route = "POST /api/chat"
  /\ srvRes.status = 200

\* C24: the list handed to the ranker on the chat path is the user's at most
\* 200 most recently created resources, most recently created first; the
\* shortlist of the response is the ranking of that list.
C24_RankerGetsNewestFirst ==
  ChatAnswered =>
    IdsOf(srvRes.chat[1].resources)
      = IdsOf(scoreResources(srvReq.body.message[1],
                             mapToResource(findNewest(collection, srvReq.user[1].sub))))

\* C25: after any sequence of successful create and update requests, the
\* tag list of every stored resource has no duplicates and holds every
\* letter-tag of the title the resource is stored with.
C25_TagsHoldLetterTagsOnce ==
  \A i \in DOMAIN collection :
     LET tags == collection[i].tags
     IN  /\ \A a, b \in DOMAIN tags : a # b => tags[a] # tags[b]
         /\ Range(deriveLetterTags(collection[i].title)) \subseteq Range(tags)

\* An update gave a resource created as "Ss" the title "e1": its tags hold
\* the letter-tags of both titles.
C25_Witness ==
  /\ srvReq.route = "PUT /api/resources/:id"
  /\ srvRes.status = 200
  /\ \E i \in DOMAIN collection :
        /\ collection[i].title = <<"e","1">>
        /\ <<"l","e","t","t","e","r","-","s">> \in Range(collection[i].tags)
        /\ <<"l","e","t","t","e","r","-","e">> \in Range(collection[i].tags)

\* Position of the first call named op in the log of a request (0: none).
FirstCall(ops, op) ==
  IF \E i \in DOMAIN ops : ops[i] = op
    THEN CHOOSE i \in DOMAIN ops : ops[i] = op /\ \A j \in 1..(i - 1) : ops[j] # op
    ELSE 0

\* C26: deleting an owned resource removes the record first and then tries
\* to delete the attached file; a failure of the file deletion is swallowed:
\* the answer is 204 and the record stays deleted.  A resource that is not
\* found or not owned leaves records and files as they are.
C26_FileFailureSwallowed ==
  [][ ( /\ srvReq'.route = "DELETE /api/resources/:id"
        /\ srvReq'.user # <<>>
        /\ isValid(srvReq'.id)
        /\ dbUp ) =>
        LET id    == srvReq'.id
            owned == \E i \in DOMAIN collection :
                        /\ collection[i].id = id
                        /\ collection[i].ownerId = srvReq'.user[1].sub
        IN  /\ owned =>
                  /\ srvRes'.status = 204
                  /\ collection' = SelectSeq(collection, LAMBDA d : d.id # id)
                  /\ FirstCall(srvOps', "resources.deleteOne") > 0
                  /\ FirstCall(srvOps', "bucket.delete") > 0 =>
                        FirstCall(srvOps', "resources.deleteOne")
                          < FirstCall(srvOps', "bucket.delete")
            /\ ~owned =>
                  /\ srvRes'.status = 404
                  /\ collection' = collection
                  /\ bucket' = bucket
                  /\ patients' = patients
    ]_vars

\* A delete was answered 204 after bucket.delete was tried, and every file
\* ever stored is still in the bucket: the file deletion failed.
C26_Witness ==
  /\ srvReq.route = "DELETE /api/resources/:id"
  /\ srvRes.status = 204
  /\ FirstCall(srvOps, "bucket.delete") > 0
  /\ FirstCall(srvOps, "console.error") > 0
  /\ created.c > 0
  /\ Cardinality(bucket) = created.c

\* C27: in the file-upload flow, once the file is stored, a failure of the
\* text extraction or of the metadata suggestion never fails the upload: the
\* response is a success carrying the file identifier, with an empty
\* extractedText when the extraction failed and with the neutral suggestion
\* (no tags, no ageRange, no type) when either step failed.
C27_EnrichmentFailureKeepsUpload ==
  [][ ( /\ srvReq'.route = "POST /api/upload-file"
        /\ bucket' # bucket
        /\ FirstCall(srvOps', "console.error") > 0 ) =>
        /\ srvRes'.status = 200
        /\ srvRes'.upload # <<>>
        /\ \E f \in bucket' \ bucket : srvRes'.upload[1].fileId = f.id
        /\ srvRes'.upload[1].suggested.tags = <<>>
        /\ srvRes'.upload[1].suggested.ageRange = <<>>
        /\ srvRes'.upload[1].suggested.type = <<>>
        /\ FirstCall(srvOps', "openai.suggest") = 0 =>
              srvRes'.upload[1].extractedText = <<>>
    ]_vars

\* A file was stored, its text extracted and the suggestion failed: the
\* upload succeeded with the text and the neutral suggestion.
C27_Witness ==
  /\ srvReq.route = "POST /api/upload-file"
  /\ srvRes.status = 200
  /\ FirstCall(srvOps, "openai.suggest") > 0
  /\ FirstCall(srvOps, "console.error") > 0
  /\ srvRes.upload[1].extractedText # <<>>
  /\ srvRes.upload[1].suggested = NoSuggestion
  /\ \E f \in bucket : f.id = srvRes.upload[1].fileId

----------------------------------------------------------------------------
(* Property of the patient routes, stated over SpecPatients.                *)

\* The identifiers of the patients that were created and are stored no
\* more: the patients DELETE /api/patients/:id has removed.
DeletedPatientIds ==
  {objectId("b", k) : k \in 1..created.b} \ {patients[j].id : j \in DOMAIN patients}

\* C28: once DELETE /api/patients/:id has succeeded for a user, no resource
\* of that user lists the deleted patient in patientIds, and this stays so
\* after any later resource update and patient assignment.
C28_DeletedPatientNeverListed ==
  \A i \in DOMAIN collection :
     \A k \in DOMAIN collection[i].patientIds :
        collection[i].patientIds[k] \notin DeletedPatientIds

----------------------------------------------------------------------------
(* Property of the client's delete with undo, stated over SpecUndo.         *)

\* No timer is armed, no request is on its way and no Undo can be pressed.
FlowSettled(id) ==
  /\ timer[id] # "armed"
  /\ request[id] # "sent"
  /\ toast[id] # "shown"

Shown(id) == Cardinality({i \in DOMAIN library : library[i] = id})

\* C29: for every interleaving of the timer firing, the DELETE request
\* completing and the user pressing Undo, once the flow has settled the
\* resource is in the library at most once, and it is there exactly when the
\* server still stores it; Undo before the timer fires means the request is
\* never sent.
C29_UndoKeepsLibraryAndServerAlike ==
  \A id \in LibraryIds :
     /\ FlowSettled(id) =>
           /\ Shown(id) <= 1
           /\ Shown(id) = 1 <=> id \in remote
     /\ timer[id] = "cleared" => request[id] = "none"

----------------------------------------------------------------------------
(* Property of the database connection, stated over SpecDb.                 *)

\* The clients that were constructed and are connecting or connected.
LiveClients ==
  {i \in DOMAIN clientState : clientState[i] \in {"connecting", "connected"}}

\* C30: for every interleaving of concurrent callers of getDb, callers that
\* arrive during the first connect included, at most one MongoClient is
\* created and connected until closeDb is called and every caller receives
\* the same Db handle; when closeDb has finished, client, db and bucket are
\* reset.
C30_OneClientOneHandle ==
  [][ /\ closePc' = "idle" =>
           /\ Cardinality(LiveClients') <= 1
           /\ \A c, d \in Callers :
                 (callPc'[c] = "returned" /\ callPc'[d] = "returned") =>
                    callResult'[c] = callResult'[d]
      /\ (closePc = "closing" /\ closePc' = "returned") =>
           (client' = <<>> /\ db' = <<>> /\ uploadsBucket' = <<>>)
    ]_vars

=============================================================================
